---- MODULE Spec2Model ----
(***************************************************************************)
(* A model of the manabase optimizer of manabase.py: the value types       *)
(* (colours, mana costs, constraints), the Frank table and its helpers,    *)
(* the land kinds with their untapped rules and contributions, the         *)
(* constraint model that define_model builds, and solve, which hands that  *)
(* model to the CP-SAT solver and wraps the answer in a Solution.          *)
(***************************************************************************)
EXTENDS Integers, Sequences, FiniteSets, TLC

VARIABLES
    pc,          \* position of the running call
    constraints, \* solve: the constraints argument
    lands,       \* solve: the lands argument
    model,       \* solve: the Model built by define_model
    status,      \* solve: the status the solver returned
    values,      \* solve: the solver's value for every variable of the model
    result,      \* solve: what solve returned or raised
    call,        \* helper call: the function called and its arguments
    ret          \* helper call: what it returned or raised

vars == <<pc, constraints, lands, model, status, values, result, call, ret>>

None == [type |-> "NoneType"]

(***************************************************************************)
(* Colours, colour combinations, mana costs, constraints                   *)
(***************************************************************************)

all_colors == {"W", "U", "B", "R", "G", "C"}

\* A coloured pip and a generic pip of a ManaCost.
Pip(c) == [kind |-> "color", color |-> c, n |-> 1]

Generic(k) == [kind |-> "generic", color |-> "", n |-> k]

RECURSIVE SumSeq(_)
SumSeq(s) == IF s = <<>> THEN 0 ELSE Head(s) + SumSeq(Tail(s))

RECURSIVE SumOver(_, _)
\* The sum of f[x] over the elements x of the finite set S.
SumOver(S, f) ==
    IF S = {} THEN 0
    ELSE LET x == CHOOSE y \in S : TRUE IN f[x] + SumOver(S \ {x}, f)

mana_value(cost) == SumSeq([i \in DOMAIN cost |-> cost[i].n])

RECURSIVE colored_pips(_)
colored_pips(cost) ==
    IF cost = <<>> THEN <<>>
    ELSE IF Head(cost).kind = "color"
         THEN <<Head(cost).color>> \o colored_pips(Tail(cost))
         ELSE colored_pips(Tail(cost))

\* ColorCombination: a multiset of colours, kept as its per-colour counts.
ColorCombination(pips, positions) ==
    [c \in all_colors |-> Cardinality({i \in positions : pips[i] = c})]

CCLen(cc) == SumOver(all_colors, cc)

CCOf(seq) == ColorCombination(seq, DOMAIN seq)

\* The combinations of pips of different colours only: a set of colours in
\* place of a multiset.
find_color_sets(pips) ==
    {ColorCombination(pips, item) :
        item \in {x \in (SUBSET (DOMAIN pips)) \ {{}} :
                    \A i, j \in x : pips[i] = pips[j] => i = j}}

find_color_combinations(pips) ==
    {ColorCombination(pips, item) : item \in (SUBSET (DOMAIN pips)) \ {{}}}

Constraint(required, turn) ==
    [required |-> required,
     turn |-> IF turn = -1 THEN mana_value(required) ELSE turn]

color_combinations(constraint) ==
    find_color_combinations(colored_pips(constraint.required))

(***************************************************************************)
(* The Frank table                                                         *)
(***************************************************************************)

Row(a, b, c, d) == (60 :> a) @@ (80 :> b) @@ (99 :> c) @@ (40 :> d)

table ==
    (<<1, 1>> :> Row(14, 19, 19, 9)) @@
    (<<1, 2>> :> Row(13, 18, 19, 9)) @@
    (<<2, 2>> :> Row(21, 28, 30, 14)) @@
    (<<1, 3>> :> Row(12, 16, 18, 8)) @@
    (<<2, 3>> :> Row(18, 25, 28, 12)) @@
    (<<3, 3>> :> Row(23, 32, 36, 16)) @@
    (<<1, 4>> :> Row(10, 15, 16, 7)) @@
    (<<2, 4>> :> Row(16, 23, 26, 11)) @@
    (<<3, 4>> :> Row(21, 29, 33, 14)) @@
    (<<4, 4>> :> Row(24, 34, 39, 17)) @@
    (<<1, 5>> :> Row(9, 14, 15, 6)) @@
    (<<2, 5>> :> Row(15, 20, 23, 10)) @@
    (<<3, 5>> :> Row(19, 26, 30, 13)) @@
    (<<4, 5>> :> Row(22, 31, 36, 15)) @@
    (<<1, 6>> :> Row(9, 12, 14, 6)) @@
    (<<2, 6>> :> Row(13, 19, 22, 9)) @@
    (<<3, 6>> :> Row(16, 22, 26, 10)) @@
    (<<2, 7>> :> Row(12, 17, 20, 8)) @@
    (<<3, 7>> :> Row(16, 22, 26, 10))

\* table.get((num_pips, turn), {}).get(deck_size); 0 stands for Python's None.
TableGet(num_pips, turn, deck_size) ==
    IF <<num_pips, turn>> \in DOMAIN table
    THEN IF deck_size \in DOMAIN table[<<num_pips, turn>>]
         THEN table[<<num_pips, turn>>][deck_size]
         ELSE 0
    ELSE 0

Raise(exc) == [raised |-> TRUE, exc |-> exc, value |-> None]

Return(v) == [raised |-> FALSE, exc |-> None, value |-> v]

EmptyMap == [x \in {} |-> 0]

\* A count of the colours of a combination that takes each colour once.
NumPipsDistinct(colors) == Cardinality({c \in all_colors : colors[c] > 0})

\* The pips counted for one colour combination.
NumPips(colors) == CCLen(colors)

RECURSIVE FrankLoopPartial(_, _, _, _)
\* A loop that passes over a combination without an entry and keeps the rest.
FrankLoopPartial(constraint, deck_size, color_set, results) ==
    IF color_set = {} THEN Return(results)
    ELSE LET colors == CHOOSE x \in color_set : TRUE
             req == TableGet(NumPips(colors), constraint.turn, deck_size)
         IN FrankLoopPartial(constraint, deck_size, color_set \ {colors},
                             IF req = 0 THEN results ELSE (colors :> req) @@ results)

RECURSIVE FrankLoop(_, _, _, _)
\* The loop of frank over color_set: it raises at the first combination that
\* has no entry and returns the results only after the last one.
FrankLoop(constraint, deck_size, color_set, results) ==
    IF color_set = {} THEN Return(results)
    ELSE LET colors == CHOOSE x \in color_set : TRUE
             req == TableGet(NumPips(colors), constraint.turn, deck_size)
         IN IF req = 0
            THEN Raise("UnsatisfiableConstraint")
            ELSE FrankLoop(constraint, deck_size, color_set \ {colors},
                           (colors :> req) @@ results)

frank(constraint, deck_size) ==
    FrankLoop(constraint, deck_size, color_combinations(constraint), EmptyMap)

DefaultDeckSize == 60

\* frank(constraint) read at the deck size 80.
frank80(constraint) == frank(constraint, 80)

\* frank(constraint) with the default deck_size.
frank60(constraint) == frank(constraint, DefaultDeckSize)

num_lands(mv, turn) ==
    LET ws == [i \in 1..mv |-> "W"]
        r == frank60(Constraint([i \in 1..mv |-> Pip("W")], turn))
    IN IF r.raised
       THEN frank60(Constraint([i \in 1..4 |-> Pip("W")], 4)).value[CCOf([i \in 1..4 |-> "W"])]
       ELSE r.value[CCOf(ws)]

num_lands_required(constraint) ==
    num_lands(mana_value(constraint.required), constraint.turn)

need_untapped(turn) ==
    LET r == frank60(Constraint(<<Pip("C")>>, turn))
    IN IF r.raised
       THEN frank60(Constraint(<<Pip("C")>>, 6)).value[CCOf(<<"C">>)]
       ELSE r.value[CCOf(<<"C">>)]

(***************************************************************************)
(* Lands                                                                   *)
(***************************************************************************)

MAX_DECK_SIZE == 100

\* The basic land types and the colour each produces.
all_basic_land_types ==
    {[name |-> "Plains", produces |-> "W"], [name |-> "Island", produces |-> "U"],
     [name |-> "Swamp", produces |-> "B"], [name |-> "Mountain", produces |-> "R"],
     [name |-> "Forest", produces |-> "G"]}

\* A land of the catalog.  kind is its class; typeline is kept as the two
\* facts the program reads from it: whether it starts with "Basic Land" and
\* which basic land type names occur in it.
Land(kind, name, basic, types, produces, painful) ==
    [kind |-> kind, name |-> name, is_basic |-> basic, types |-> types,
     produces |-> produces, painful |-> painful]

Plains == Land("Basic", "Plains", TRUE, {"Plains"}, <<"W">>, FALSE)
Island == Land("Basic", "Island", TRUE, {"Island"}, <<"U">>, FALSE)
Swamp == Land("Basic", "Swamp", TRUE, {"Swamp"}, <<"B">>, FALSE)
GlacialFortress == Land("Check", "Glacial Fortress", FALSE, {}, <<"W", "U">>, FALSE)
PortTown == Land("Snarl", "Port Town", FALSE, {}, <<"W", "U">>, FALSE)
MysticGate == Land("Filter", "Mystic Gate", FALSE, {}, <<"W", "U", "C">>, FALSE)
SunkenRuins == Land("Filter", "Sunken Ruins", FALSE, {}, <<"U", "B", "C">>, FALSE)
IrrigatedFarmland ==
    Land("Bicycle", "Irrigated Farmland", FALSE, {"Plains", "Island"}, <<"W", "U">>, FALSE)
CelestialColonnade == Land("Tapland", "Celestial Colonnade", FALSE, {}, <<"W", "U">>, FALSE)
CavesOfKoilos == Land("Pain", "Caves of Koilos", FALSE, {}, <<"W", "B">>, TRUE)
\* Prairie Stream declared as a land that enters untapped on every turn.
PrairieStreamUntapped ==
    Land("Pain", "Prairie Stream", FALSE, {"Plains", "Island"}, <<"W", "U">>, FALSE)
PrairieStream ==
    Land("Tango", "Prairie Stream", FALSE, {"Plains", "Island"}, <<"W", "U">>, FALSE)
RiverOfTears == Land("RiverOfTearsLand", "River of Tears", FALSE, {}, <<"U", "B">>, FALSE)
CrumblingNecropolis ==
    Land("Tapland", "Crumbling Necropolis", FALSE, {}, <<"U", "B", "R">>, FALSE)

CreepingTarPit == Land("Tapland", "Creeping Tar Pit", FALSE, {}, <<"U", "B">>, FALSE)
StirringWildwood == Land("Tapland", "Stirring Wildwood", FALSE, {}, <<"G", "W">>, FALSE)

Range(seq) == {seq[i] : i \in DOMAIN seq}

\* Five copies of a land that is not basic.
max_five(land) == IF land.is_basic THEN MAX_DECK_SIZE ELSE 5

\* Card.max
max(land) == IF land.is_basic THEN MAX_DECK_SIZE ELSE 4

\* Land.can_produce_any, for the colours of a colour combination.
can_produce_any(land, colors) == \E c \in Range(land.produces) : colors[c] > 0

\* Land.can_produce_any, for a tuple of colours.
can_produce_any_of(land, produces) == Range(land.produces) \cap Range(produces) # {}

basic_land_types_needed(land) ==
    {t.name : t \in {bt \in all_basic_land_types : bt.produces \in Range(land.produces)}}

\* A test that asks for every basic land type in place of any.
has_every_basic_land_type(land, needed) == needed \subseteq land.types

has_basic_land_types(land, needed) == land.types \cap needed # {}

IsFilter(land) == land.kind = "Filter"

IsBasic(land) == land.kind = "Basic"

find_colors(cs) == UNION {Range(colored_pips(c.required)) : c \in cs}

\* The land passes the test of viable_lands.
\* A test that lets a land of three colours into a deck of two.
ViableOfAnyColours(colors, land) ==
    \/ Cardinality(colors \cap Range(land.produces)) >= 2
    \/ (colors \cap Range(land.produces) # {} /\ IsBasic(land))

Viable(colors, land) ==
    /\ ~(Cardinality(colors) <= 2 /\ Cardinality(Range(land.produces) \ {"C"}) > 2)
    /\ \/ Cardinality(colors \cap Range(land.produces)) >= 2
       \/ (colors \cap Range(land.produces) # {} /\ IsBasic(land))

viable_lands(colors, candidates) == {land \in candidates : Viable(colors, land)}

\* The catalog, in the order it is written.
all_lands ==
    <<Plains, Island, Swamp, GlacialFortress, PortTown, MysticGate, SunkenRuins,
      IrrigatedFarmland, CelestialColonnade, CavesOfKoilos, PrairieStream, RiverOfTears, CrumblingNecropolis>>

\* Model.lands: one land variable per viable land.  The lands are held as a
\* sequence and land variable i is the variable of lands[i].
ModelLands(S) ==
    LET kept(land) == land \in S
    IN SelectSeq(all_lands, kept)

(***************************************************************************)
(* Expressions of the constraint model.  A land hands the model builder    *)
(* either the integer 0, its own land variable, the makes_mana variable of *)
(* Conditional.untapped_if, or one of a Filter's colour variables.  Lands  *)
(* are named by their position i in Model.lands and constraints by their   *)
(* position j in the iteration over the frozenset of constraints.          *)
(***************************************************************************)

Zero == [kind |-> "zero"]

LandVar(i) == [kind |-> "land", land |-> i]

\* Conditional.untapped_if: a makes_mana_var that equals the land variable
\* when the enablers sum to at least needed and 0 otherwise.
untapped_if(i, needed, enablers) ==
    [kind |-> "makes_mana", land |-> i, needed |-> needed, enablers |-> enablers]

FilterVar(i, j, var) == [kind |-> "filter", land |-> i, constraint |-> j, var |-> var]

(***************************************************************************)
(* Untapped rules                                                          *)
(***************************************************************************)

untapped_rules(i, possible, turn) ==
    LET land == possible[i]
    IN CASE land.kind \in {"Basic", "Pain", "RiverOfTearsLand"} -> LandVar(i)
         [] land.kind \in {"Tapland", "Bicycle"} -> Zero
         [] land.kind = "Check" ->
               IF turn = 1 THEN Zero
               ELSE untapped_if(i, need_untapped(turn),
                        {k \in DOMAIN possible :
                            has_basic_land_types(possible[k], basic_land_types_needed(land))})
         [] land.kind = "Snarl" ->
               untapped_if(i, num_lands(turn, turn),
                   {k \in DOMAIN possible :
                       has_basic_land_types(possible[k], basic_land_types_needed(land))})
         [] land.kind = "Filter" ->
               IF turn <= 1 THEN Zero
               ELSE untapped_if(i, need_untapped(turn),
                        {k \in DOMAIN possible :
                            /\ ~(turn <= 2 /\ IsFilter(possible[k]))
                            /\ can_produce_any_of(land, possible[k].produces)})
         [] land.kind = "Tango" ->
               IF turn <= 2 THEN Zero
               ELSE untapped_if(i, num_lands(2, turn - 1),
                        {k \in DOMAIN possible : possible[k].is_basic})

(***************************************************************************)
(* Contributions (add_to_model)                                            *)
(***************************************************************************)

Single(c) == [x \in all_colors |-> IF x = c THEN 1 ELSE 0]

\* Filter.add_to_model ejects early: turn 1, or none of the colours requested.
FilterEjects(land, constraint) ==
    \/ constraint.turn = 1
    \/ ~ \E cc \in color_combinations(constraint) : can_produce_any(land, cc)

impossible_turn_2_contribution(land, constraint) ==
    /\ constraint.turn = 2
    /\ Len(colored_pips(constraint.required)) = 2
    /\ \E c \in Range(colored_pips(constraint.required)) : c \notin Range(land.produces)

\* A contribution that gives the land variable to every single colour.
FilterContributionAnyTurn(i, land, j, constraint, cc) ==
    LET m == land.produces[1]
        n == land.produces[2]
    IN IF cc[m] >= 2 THEN FilterVar(i, j, "mm")
       ELSE IF cc[m] > 0 /\ cc[n] > 0 THEN FilterVar(i, j, "mn")
       ELSE IF cc[n] >= 2 THEN FilterVar(i, j, "nn")
       ELSE IF cc = Single(m) \/ cc = Single(n) THEN LandVar(i)
       ELSE IF cc["C"] > 0 THEN LandVar(i)
       ELSE Zero

\* The Filter's contribution once its colour variables exist.
FilterContribution(i, land, j, constraint, cc) ==
    LET m == land.produces[1]
        n == land.produces[2]
    IN IF cc[m] >= 2 THEN FilterVar(i, j, "mm")
       ELSE IF cc[m] > 0 /\ cc[n] > 0 THEN FilterVar(i, j, "mn")
       ELSE IF cc[n] >= 2 THEN FilterVar(i, j, "nn")
       ELSE IF (cc = Single(m) \/ cc = Single(n))
               /\ ~impossible_turn_2_contribution(land, constraint)
            THEN LandVar(i)
       ELSE IF cc["C"] > 0 THEN LandVar(i)
       ELSE Zero

\* A Tango that contributes on turn 1 as on every other turn.
TangoContributionAnyTurn(i, land, constraint, cc) ==
    IF can_produce_any(land, cc) THEN LandVar(i) ELSE Zero

\* Tango.add_to_model
TangoContribution(i, land, constraint, cc) ==
    IF constraint.turn = 1 THEN Zero
    ELSE IF can_produce_any(land, cc) THEN LandVar(i) ELSE Zero

\* land.add_to_model(model, constraint)[cc] for the land possible[i] and the
\* constraint order[j]; Zero where the map has no entry.
add_to_model(i, possible, j, order, cc) ==
    LET land == possible[i]
        constraint == order[j]
    IN CASE land.kind \in {"Basic", "Check", "Snarl", "Pain"} ->
               IF can_produce_any(land, cc) THEN LandVar(i) ELSE Zero
         [] land.kind \in {"Tapland", "Bicycle"} ->
               IF constraint.turn > 1 /\ can_produce_any(land, cc) THEN LandVar(i) ELSE Zero
         [] land.kind = "RiverOfTearsLand" ->
               IF cc["U"] > 0 \/ cc["B"] > 0 THEN LandVar(i) ELSE Zero
         [] land.kind = "Tango" -> TangoContribution(i, land, constraint, cc)
         [] land.kind = "Filter" ->
               IF FilterEjects(land, constraint)
               THEN IF cc["C"] > 0 THEN LandVar(i) ELSE Zero
               ELSE FilterContribution(i, land, j, constraint, cc)

\* The rule with the Filters counted among the enablers.
FilterRulesWithFilters(i, possible, j, order) ==
    [land |-> i, constraint |-> j,
     enablers |-> {k \in DOMAIN possible :
                      Range(possible[k].produces)
                         \cap {possible[i].produces[1], possible[i].produces[2]} # {}},
     required |-> need_untapped(order[j].turn)]

\* The variables and constraints Filter.add_to_model adds for a constraint it
\* does not eject on: the enablers and the number of them that makes it active.
FilterRules(i, possible, j, order) ==
    [land |-> i, constraint |-> j,
     enablers |-> {k \in DOMAIN possible :
                      /\ Range(possible[k].produces)
                            \cap {possible[i].produces[1], possible[i].produces[2]} # {}
                      /\ ~IsFilter(possible[k])},
     required |-> need_untapped(order[j].turn)]

(***************************************************************************)
(* define_model                                                            *)
(***************************************************************************)

OnCurve(constraint) == constraint.turn = mana_value(constraint.required)

\* No constraint asks for untapped lands.
required_untapped_none(constraint) == 0

required_untapped(constraint) ==
    IF OnCurve(constraint) THEN need_untapped(constraint.turn) ELSE 0

generic_ok(constraint) ==
    Len(constraint.required) > Len(colored_pips(constraint.required))

makes_one_of_the_colors(land, constraint) ==
    \E colors \in DOMAIN frank60(constraint).value : can_produce_any(land, colors)

\* The positions of the lands admitted to the untapped sum of a constraint.
admissible_untapped(constraint, possible) ==
    {i \in DOMAIN possible :
        generic_ok(constraint) \/ makes_one_of_the_colors(possible[i], constraint)}

Max(S) == CHOOSE x \in S : \A y \in S : y <= x

RECURSIVE SetToSeq(_)
\* The elements of a finite set in some order.
SetToSeq(S) ==
    IF S = {} THEN <<>>
    ELSE LET x == CHOOSE y \in S : TRUE IN <<x>> \o SetToSeq(S \ {x})

\* deck_colors: the comprehension collects constraint.color_combinations
\* itself, the bound method of each constraint, not the colours it returns.
deck_colors(cs) ==
    {[type |-> "method", name |-> "Constraint.color_combinations", self |-> c] : c \in cs}

\* color in land.produces: no bound method equals a Color.
InProduces(color, land) == color.type = "Color" /\ color.code \in Range(land.produces)

\* A Resource is a ColorCombination or the literal "untapped".
Resource(cc) == [kind |-> "colors", colors |-> cc]

UNTAPPED == [kind |-> "untapped", colors |-> [c \in all_colors |-> 0]]

\* What the loops over one constraint add: per colour combination the Frank
\* number and the contributions of every land.
SourcesOf(j, order, possible) ==
    LET ccs == SetToSeq(color_combinations(order[j]))
    IN [k \in DOMAIN ccs |->
          [cc |-> ccs[k],
           required |-> frank60(order[j]).value[ccs[k]],
           contribs |-> [i \in DOMAIN possible |-> add_to_model(i, possible, j, order, ccs[k])]]]

\* The untapped section of one constraint; required 0 when it is skipped.
UntappedOf(constraint, possible) ==
    LET adm == SetToSeq(admissible_untapped(constraint, possible))
    IN [required |-> required_untapped(constraint),
        lands_that_are_untapped_this_turn |->
           IF required_untapped(constraint) = 0 THEN <<>>
           ELSE [k \in DOMAIN adm |-> untapped_rules(adm[k], possible, constraint.turn)]]

\* The model define_model builds for the constraints cs over the candidate
\* lands.  order numbers the constraints; the numbering only names them.
define_model(cs, candidates) ==
    LET possible_lands == ModelLands(viable_lands(find_colors(cs), candidates))
        order == SetToSeq(cs)
        max_turn == Max({c.turn : c \in cs}) + 1
        colors == SetToSeq(deck_colors(cs))
    IN IF \E c \in cs : frank60(c).raised
       THEN Raise("UnsatisfiableConstraint")
       ELSE Return(
         [lands |-> possible_lands,
          order |-> order,
          sources |-> [j \in DOMAIN order |-> SourcesOf(j, order, possible_lands)],
          filters |->
             {FilterRules(p[1], possible_lands, p[2], order) :
                 p \in {q \in (DOMAIN possible_lands) \X (DOMAIN order) :
                          /\ IsFilter(possible_lands[q[1]])
                          /\ ~FilterEjects(possible_lands[q[1]], order[q[2]])}},
          untapped |-> [j \in DOMAIN order |-> UntappedOf(order[j], possible_lands)],
          min_lands |-> Max({num_lands_required(c) : c \in cs}),
          spend |->
             [turn \in 1..(max_turn - 1) |->
                [needed |-> num_lands(turn, turn),
                 untapped_this_turn |->
                    [i \in DOMAIN possible_lands |-> untapped_rules(i, possible_lands, turn)]]],
          painful |-> {i \in DOMAIN possible_lands : possible_lands[i].painful},
          colored_sources |->
             [k \in DOMAIN colors |->
                [color |-> colors[k],
                 contributing_lands |->
                    {i \in DOMAIN possible_lands : InProduces(colors[k], possible_lands[i])}]]])

(***************************************************************************)
(* The value of the model's expressions under an assignment a of solver    *)
(* values: a.count for the land variables and a.filter for the colour      *)
(* variables of the Filters.                                               *)
(***************************************************************************)

\* sum of the land variables at the positions S.
CountOf(S, count) == SumOver(S, count)

Value(e, a) ==
    CASE e.kind = "zero" -> 0
      [] e.kind = "land" -> a.count[e.land]
      [] e.kind = "makes_mana" ->
            IF CountOf(e.enablers, a.count) >= e.needed THEN a.count[e.land] ELSE 0
      [] e.kind = "filter" -> a.filter[<<e.land, e.constraint>>][e.var]

RECURSIVE SumTo(_, _, _)
SumTo(es, a, n) == IF n = 0 THEN 0 ELSE Value(es[n], a) + SumTo(es, a, n - 1)

\* sum(...) of a list of expressions.
Sum(es, a) == SumTo(es, a, Len(es))

RECURSIVE SumFirst(_, _)
\* The sum of the first n elements of a sequence of numbers.
SumFirst(s, n) == IF n = 0 THEN 0 ELSE s[n] + SumFirst(s, n - 1)

TotalLands(m, a) == SumFirst(a.count, Len(a.count))

enough_untapped(m, turn, a) ==
    Sum(m.spend[turn].untapped_this_turn, a) >= m.spend[turn].needed

\* A turn short of untapped lands spends nothing.
mana_spend_nothing(m, turn, a) == IF enough_untapped(m, turn, a) THEN turn ELSE 0

mana_spend_this_turn(m, turn, a) == IF enough_untapped(m, turn, a) THEN turn ELSE turn - 1

ManaSpend(m, a) == SumSeq([turn \in DOMAIN m.spend |-> mana_spend_this_turn(m, turn, a)])

MaxManaSpend(m) == SumSeq([turn \in DOMAIN m.spend |-> turn])

PainOf(m, a) == CountOf(m.painful, a.count)

TotalColoredSources(m, a) ==
    SumSeq([k \in DOMAIN m.colored_sources |->
              CountOf(m.colored_sources[k].contributing_lands, a.count)])

\* An objective that rewards lands instead of charging for them.
objective_lands_added(mana_spend, total, pain, total_colored_sources) ==
    1000 + mana_spend * 6 + total * 10 - pain * 2 + total_colored_sources

\* objective == 1000 + mana_spend * 6 - total_lands * 10 - pain * 2 + total_colored_sources
objective_of(mana_spend, total, pain, total_colored_sources) ==
    1000 + mana_spend * 6 - total * 10 - pain * 2 + total_colored_sources

Objective(m, a) ==
    objective_of(ManaSpend(m, a), TotalLands(m, a), PainOf(m, a), TotalColoredSources(m, a))

(***************************************************************************)
(* The constraints of the model.  A variable that an equality ties to an   *)
(* expression is represented by the value of the expression, held to the   *)
(* bounds the variable was created with.                                   *)
(***************************************************************************)

\* new_int_var(lb, ub, ...): the bounds of a variable holding v.
InBounds(v, lb, ub) == lb <= v /\ v <= ub

\* Every makes_mana_var is created with the bounds 0..4.
MakesManaBounds(es, a) ==
    \A k \in DOMAIN es : es[k].kind = "makes_mana" => InBounds(Value(es[k], a), 0, 4)

\* The requirement on one colour combination s of a constraint: the sources
\* variable equals sum(contribs) and is at least the Frank number.
SourcesConstraint(s, a) ==
    LET sources_of_this == Sum(s.contribs, a)
    IN /\ InBounds(sources_of_this, 0, MAX_DECK_SIZE)
       /\ InBounds(s.required, 0, MAX_DECK_SIZE)
       /\ sources_of_this >= s.required

\* The untapped section u of a constraint.
UntappedConstraint(u, a) ==
    LET untapped_this_turn == Sum(u.lands_that_are_untapped_this_turn, a)
    IN u.required # 0 =>
          /\ InBounds(untapped_this_turn, 0, MAX_DECK_SIZE)
          /\ untapped_this_turn >= u.required
          /\ MakesManaBounds(u.lands_that_are_untapped_this_turn, a)

\* The constraints Filter.add_to_model adds with the Filter's variables.
\* m_consumed, n_consumed and c_sources are read by nothing else, so the
\* solver only has to have some value for them.
\* The constraints without those that hold when the Filter is not active.
FilterConstraintsActive(f, land, a) ==
    LET v == a.filter[<<f.land, f.constraint>>]
        land_var == a.count[f.land]
    IN /\ InBounds(v.mm, 0, max(land) * 2) /\ v.mm <= land_var * 2
       /\ InBounds(v.mn, 0, max(land) * 2) /\ v.mn <= land_var * 2
       /\ InBounds(v.nn, 0, max(land) * 2) /\ v.nn <= land_var * 2
       /\ \E m_consumed, n_consumed \in 0..max(land) :
             /\ m_consumed <= land_var
             /\ n_consumed <= land_var
             /\ (m_consumed + n_consumed) * 2 = v.mm + v.mn + v.nn
             /\ v.mm + v.mn + v.nn - m_consumed - n_consumed = land_var

FilterConstraints(f, land, a) ==
    LET v == a.filter[<<f.land, f.constraint>>]
        land_var == a.count[f.land]
        active == CountOf(f.enablers, a.count) >= f.required
    IN /\ InBounds(v.mm, 0, max(land) * 2) /\ v.mm <= land_var * 2
       /\ InBounds(v.mn, 0, max(land) * 2) /\ v.mn <= land_var * 2
       /\ InBounds(v.nn, 0, max(land) * 2) /\ v.nn <= land_var * 2
       /\ \E c_sources \in 0..max(land) : c_sources <= land_var
       /\ \E m_consumed, n_consumed \in 0..max(land) :
             /\ m_consumed <= land_var
             /\ n_consumed <= land_var
             /\ (m_consumed + n_consumed) * 2 = v.mm + v.mn + v.nn
             /\ v.mm + v.mn + v.nn - m_consumed - n_consumed = land_var
       /\ ~active => (v.mm = 0 /\ v.mn = 0 /\ v.nn = 0)

\* The constraints added for the constraint at position j.
ConstraintConstraints(m, j, a) ==
    /\ \A f \in m.filters : f.constraint = j => FilterConstraints(f, m.lands[f.land], a)
    /\ \A k \in DOMAIN m.sources[j] : SourcesConstraint(m.sources[j][k], a)
    /\ UntappedConstraint(m.untapped[j], a)

\* The constraints on the aggregate variables and on the land variables.
AggregateConstraints(m, a) ==
    LET total == TotalLands(m, a)
        mana_spend == ManaSpend(m, a)
        pain == PainOf(m, a)
        total_colored_sources == TotalColoredSources(m, a)
    IN /\ \A i \in DOMAIN m.lands : InBounds(a.count[i], 0, max(m.lands[i]))
       /\ InBounds(total, 0, MAX_DECK_SIZE)
       /\ InBounds(m.min_lands, 0, MAX_DECK_SIZE)
       /\ total >= m.min_lands
       /\ InBounds(MaxManaSpend(m), 0, 100)
       /\ InBounds(mana_spend, 0, 100)
       /\ \A turn \in DOMAIN m.spend : MakesManaBounds(m.spend[turn].untapped_this_turn, a)
       /\ InBounds(pain, 0, 100)
       /\ \A k \in DOMAIN m.colored_sources :
             InBounds(CountOf(m.colored_sources[k].contributing_lands, a.count),
                      0, MAX_DECK_SIZE)
       /\ InBounds(total_colored_sources, 0, MAX_DECK_SIZE)
       /\ InBounds(objective_of(mana_spend, total, pain, total_colored_sources),
                   -10000, 10000)

\* Every constraint of the model.
ModelConstraints(m, a) ==
    /\ AggregateConstraints(m, a)
    /\ \A j \in DOMAIN m.order : ConstraintConstraints(m, j, a)

(***************************************************************************)
(* The CP-SAT solver.  Run without limits it answers INFEASIBLE when no    *)
(* assignment satisfies the constraints of the model and otherwise OPTIMAL *)
(* with an assignment of greatest objective.                               *)
(***************************************************************************)

UNKNOWN == "UNKNOWN"
OPTIMAL == "OPTIMAL"
FEASIBLE == "FEASIBLE"
INFEASIBLE == "INFEASIBLE"

\* The valuations of the land variables that leave total_lands within its
\* bounds.  The lands that may have the most copies range to that number and
\* the other lands to the greatest number among them; the bounds of each
\* land variable are among the constraints of the model.
CountSpace(m) ==
    LET n == Len(m.lands)
        hi == Max({max(m.lands[i]) : i \in 1..n} \cup {0})
        most == {i \in 1..n : max(m.lands[i]) = hi}
        rest == (1..n) \ most
        lo == Max({max(m.lands[i]) : i \in rest} \cup {0})
    IN {p[1] @@ p[2] :
          p \in {q \in [most -> 0..hi] \X [rest -> 0..lo] :
                   CountOf(most, q[1]) + CountOf(rest, q[2]) <= MAX_DECK_SIZE}}

\* Every valuation of one Filter's colour variables when the Filter has g
\* copies: the two equalities on them leave mm + mn + nn = 2g.
FilterSpace(g) ==
    {[mm |-> x, mn |-> y, nn |-> 2 * g - x - y] :
        <<x, y>> \in {p \in (0..(2 * g)) \X (0..(2 * g)) : p[1] + p[2] <= 2 * g}}

\* The valuations of the Filter variables created for the constraint at
\* position j, given the land counts.
FilterValuations(m, j, count) ==
    LET keys == {<<f.land, j>> : f \in {x \in m.filters : x.constraint = j}}
    IN IF keys = {} THEN {EmptyMap}
       ELSE {v \in [keys -> UNION {FilterSpace(count[k[1]]) : k \in keys}] :
                \A k \in keys : v[k] \in FilterSpace(count[k[1]])}

\* Those of them that satisfy the constraints added for constraint j.
FilterChoices(m, j, count) ==
    {v \in FilterValuations(m, j, count) :
        ConstraintConstraints(m, j, [count |-> count, filter |-> v])}

\* Some valuation of the Filter variables completes the land counts to an
\* assignment that satisfies every constraint of the model.
Satisfies(m, count) ==
    /\ \A j \in DOMAIN m.order :
          \E v \in FilterValuations(m, j, count) :
             ConstraintConstraints(m, j, [count |-> count, filter |-> v])
    /\ AggregateConstraints(m, [count |-> count])

FeasibleCounts(m) == {count \in CountSpace(m) : Satisfies(m, count)}

RECURSIVE Merge(_, _, _)
\* The unions of one choice per constraint, for the constraints 1..n.
Merge(m, count, n) ==
    IF n = 0 THEN {EmptyMap}
    ELSE {v @@ w : v \in Merge(m, count, n - 1), w \in FilterChoices(m, n, count)}

\* The assignments with the land counts count that satisfy the model.
Completions(m, count) ==
    {[count |-> count, filter |-> v] : v \in Merge(m, count, Len(m.order))}

\* The answers of solver.solve: the status and the values of the variables.
SolverAnswers(m) ==
    LET scored == {<<Objective(m, [count |-> count]), count>> : count \in FeasibleCounts(m)}
        best == Max({p[1] : p \in scored})
    IN IF scored = {} THEN {[status |-> INFEASIBLE, values |-> None]}
       ELSE {[status |-> OPTIMAL, values |-> a] :
                a \in UNION {Completions(m, p[2]) : p \in {q \in scored : q[1] = best}}}

(***************************************************************************)
(* Model.sources and Model.required after define_model: per key            *)
(* (turn, resource) the variable stored last.  A stored variable is        *)
(* written as the expression an equality ties it to: const + sum(es).      *)
(* Which variable is stored last under a key follows the order in which    *)
(* the frozenset of constraints is iterated: iteration lists the positions *)
(* of the constraints in that order.                                       *)
(***************************************************************************)

StoredVar(const, es) == [const |-> const, es |-> es]

StoredValue(v, a) == v.const + Sum(v.es, a)

\* The positions k of the colour combination cc in the sources of constraint j.
CCAt(m, j, cc) == {k \in DOMAIN m.sources[j] : m.sources[j][k].cc = cc}

\* The constraints, by position, that write the key.
Writers(m, key) ==
    {j \in DOMAIN m.order :
        /\ m.order[j].turn = key[1]
        /\ IF key[2] = UNTAPPED THEN m.untapped[j].required # 0
           ELSE CCAt(m, j, key[2].colors) # {}}

StoreKeys(m) ==
    UNION {{<<m.order[j].turn, Resource(m.sources[j][k].cc)>> : k \in DOMAIN m.sources[j]}
             \cup (IF m.untapped[j].required # 0 THEN {<<m.order[j].turn, UNTAPPED>>} ELSE {}) :
           j \in DOMAIN m.order}

\* The constraint, among those that write the key, that is iterated last.
LastWriter(m, key, iteration) ==
    iteration[Max({p \in DOMAIN iteration : iteration[p] \in Writers(m, key)})]

\* Model.sources: new_sources stores under (turn, resource), so the constraint
\* iterated last keeps the key.
model_sources(m, iteration) ==
    [key \in StoreKeys(m) |->
        LET j == LastWriter(m, key, iteration)
        IN IF key[2] = UNTAPPED
           THEN StoredVar(0, m.untapped[j].lands_that_are_untapped_this_turn)
           ELSE StoredVar(0, m.sources[j][CHOOSE k \in CCAt(m, j, key[2].colors) : TRUE].contribs)]

\* Model.required: the Frank number under a colour combination and the
\* untapped sum itself under UNTAPPED.
model_required(m, iteration) ==
    [key \in StoreKeys(m) |->
        LET j == LastWriter(m, key, iteration)
        IN IF key[2] = UNTAPPED
           THEN StoredVar(0, m.untapped[j].lands_that_are_untapped_this_turn)
           ELSE StoredVar(m.sources[j][CHOOSE k \in CCAt(m, j, key[2].colors) : TRUE].required, <<>>)]

(***************************************************************************)
(* Solution                                                                *)
(***************************************************************************)

\* Solution.__post_init__: the values read back from the solver.
Solution(cs, st, m, a, iteration) ==
    LET kept == {i \in DOMAIN m.lands : a.count[i] > 0}
        req == model_required(m, iteration)
        src == model_sources(m, iteration)
    IN [constraints |-> cs,
        status |-> st,
        lands |-> [land \in {m.lands[i] : i \in kept} |->
                      a.count[CHOOSE i \in kept : m.lands[i] = land]],
        min_lands |-> m.min_lands,
        mana_spend |-> ManaSpend(m, a),
        max_mana_spend |-> MaxManaSpend(m),
        pain |-> PainOf(m, a),
        objective |-> Objective(m, a),
        required |-> [key \in {x \in DOMAIN req : StoredValue(req[x], a) > 0} |->
                         StoredValue(req[key], a)],
        sources |-> [key \in {x \in DOMAIN src : StoredValue(src[x], a) > 0} |->
                        StoredValue(src[key], a)],
        providing |-> [key \in DOMAIN src |->
                          SelectSeq([k \in DOMAIN src[key].es |-> Value(src[key].es[k], a)],
                                    LAMBDA v : v > 0)]]

\* Solution.num_lands and Solution.total_lands
total_lands(solution) == SumOver(DOMAIN solution.lands, solution.lands)

(***************************************************************************)
(* The inputs                                                              *)
(***************************************************************************)

\* The most cards in a deck drawn from CardPool.
MaxDeck == 2

\* The most candidate lands drawn from LandPool.
MaxCandidates == 2

W == Constraint(<<Pip("W")>>, -1)
W_T2 == Constraint(<<Pip("W")>>, 2)
C1W == Constraint(<<Generic(1), Pip("W")>>, -1)
WW == Constraint(<<Pip("W"), Pip("W")>>, -1)
WW_T1 == Constraint(<<Pip("W"), Pip("W")>>, 1)
WU == Constraint(<<Pip("W"), Pip("U")>>, -1)
C1WU == Constraint(<<Generic(1), Pip("W"), Pip("U")>>, -1)
WB == Constraint(<<Pip("W"), Pip("B")>>, -1)

CardPool == {W, W_T2, C1W, WW, WW_T1}

LandPool == {Plains, Island, GlacialFortress, CavesOfKoilos}

Decks == {d \in SUBSET CardPool : d # {} /\ Cardinality(d) <= MaxDeck}

Candidates == {c \in SUBSET LandPool : Cardinality(c) <= MaxCandidates}

U_T2 == Constraint(<<Pip("U")>>, 2)

\* Decks of two colours, each with the candidate lands it is solved over.
Scenarios ==
    {<<{WU}, {Plains, Island, Swamp, GlacialFortress}>>,
     <<{W, U_T2}, {Plains, Island, CelestialColonnade}>>,
     <<{WU}, {Plains, GlacialFortress}>>,
     <<{C1WU}, {Plains, Island, PrairieStream}>>,
     <<{C1WU}, {Plains, Island, PortTown}>>,
     <<{C1WU}, {Plains, CelestialColonnade, IrrigatedFarmland, PrairieStream}>>,
     <<{WB}, {Plains, Swamp, CavesOfKoilos}>>}

Inputs == (Decks \X Candidates) \cup Scenarios

\* The orders in which a frozenset can be iterated.
Orders(S) == {s \in [1..Cardinality(S) -> S] : Range(s) = S}

(***************************************************************************)
(* solve                                                                   *)
(***************************************************************************)

Init ==
    /\ pc = "start"
    /\ \E input \in Inputs : constraints = input[1] /\ lands = input[2]
    /\ model = None
    /\ status = UNKNOWN
    /\ values = None
    /\ result = None
    /\ call = None
    /\ ret = None

\* if not lands: lands = all_lands
candidates(given) == IF given = {} THEN Range(all_lands) ELSE given

\* model = define_model(constraints, lands)
DefineModel ==
    /\ pc = "start"
    /\ LET r == define_model(constraints, candidates(lands))
       IN /\ ~r.raised
          /\ model' = r.value
    /\ pc' = "defined"
    /\ UNCHANGED <<constraints, lands, status, values, result, call, ret>>

\* define_model raises: frank has no entry for one of the constraints.
DefineModelRaises ==
    /\ pc = "start"
    /\ LET r == define_model(constraints, candidates(lands))
       IN /\ r.raised
          /\ result' = [exception |-> r.exc]
    /\ pc' = "raised"
    /\ UNCHANGED <<constraints, lands, model, status, values, call, ret>>

\* status = solver.solve(model.model)
SolverSolve ==
    /\ pc = "defined"
    /\ \E answer \in SolverAnswers(model) :
          /\ status' = answer.status
          /\ values' = answer.values
    /\ pc' = "solved"
    /\ UNCHANGED <<constraints, lands, model, result, call, ret>>

\* A status that answers the test for returning nothing at all times.
not_both(st) == st # OPTIMAL \/ st # FEASIBLE

\* status != OPTIMAL and status != FEASIBLE
not_solved(st) == st # OPTIMAL /\ st # FEASIBLE

\* if status != OPTIMAL and status != FEASIBLE: return None
ReturnNone ==
    /\ pc = "solved"
    /\ not_solved(status)
    /\ result' = None
    /\ pc' = "returned"
    /\ UNCHANGED <<constraints, lands, model, status, values, call, ret>>

\* return Solution(constraints, status, model, solver).  The order in which
\* define_model iterated the frozenset shows only in what the store kept
\* under a key two constraints share, so it is drawn where the store is read.
ReturnSolution ==
    /\ pc = "solved"
    /\ ~not_solved(status)
    /\ \E iteration \in Orders(DOMAIN model.order) :
          result' = Solution(constraints, status, model, values, iteration)
    /\ pc' = "returned"
    /\ UNCHANGED <<constraints, lands, model, status, values, call, ret>>

Next == DefineModel \/ DefineModelRaises \/ SolverSolve \/ ReturnNone \/ ReturnSolution

Spec == Init /\ [][Next]_vars

(***************************************************************************)
(* solve over the decks of CardPool and one deck of three colours, each    *)
(* colour with a double pip on turn 2, over the three basic lands.         *)
(***************************************************************************)

UU == Constraint(<<Pip("U"), Pip("U")>>, -1)
BB == Constraint(<<Pip("B"), Pip("B")>>, -1)

WideInputs == (Decks \X Candidates) \cup {<<{WW, UU, BB}, {Plains, Island, Swamp}>>}

InitWide ==
    /\ pc = "start"
    /\ \E input \in WideInputs : constraints = input[1] /\ lands = input[2]
    /\ model = None
    /\ status = UNKNOWN
    /\ values = None
    /\ result = None
    /\ call = None
    /\ ret = None

SpecWide == InitWide /\ [][Next]_vars

(***************************************************************************)
(* solve over the decks of CardPool and one deck of two cards that both    *)
(* ask for WW on turn 3, over two basic lands and a Filter.                *)
(***************************************************************************)

WWU == Constraint(<<Pip("W"), Pip("W"), Pip("U")>>, -1)
C1WW == Constraint(<<Generic(1), Pip("W"), Pip("W")>>, -1)

FilterInputs == (Decks \X Candidates) \cup {<<{WWU, C1WW}, {Plains, Island, MysticGate}>>}

InitFilter ==
    /\ pc = "start"
    /\ \E input \in FilterInputs : constraints = input[1] /\ lands = input[2]
    /\ model = None
    /\ status = UNKNOWN
    /\ values = None
    /\ result = None
    /\ call = None
    /\ ret = None

SpecFilter == InitFilter /\ [][Next]_vars

(***************************************************************************)
(* solve over the decks of CardPool and over the decks and candidate lands *)
(* of the scenarios of test_solve, and over one card cast late.            *)
(***************************************************************************)

W_T7 == Constraint(<<Pip("W")>>, 7)
C1U == Constraint(<<Generic(1), Pip("U")>>, -1)
U_T1 == Constraint(<<Pip("U")>>, 1)

C2U == Constraint(<<Generic(2), Pip("U")>>, -1)

basics_and_tango == {Plains, Island, PrairieStream}

ScenarioInputs ==
    (Decks \X Candidates)
    \cup {<<{W_T7}, {Plains}>>,
          <<{W}, {Plains, Island, MysticGate}>>,
          <<{C1W, C1U}, basics_and_tango>>,
          <<{W, U_T1}, basics_and_tango>>,
     <<{W, U_T1, C2U}, basics_and_tango>>}

InitScenarios ==
    /\ pc = "start"
    /\ \E input \in ScenarioInputs : constraints = input[1] /\ lands = input[2]
    /\ model = None
    /\ status = UNKNOWN
    /\ values = None
    /\ result = None
    /\ call = None
    /\ ret = None

SpecScenarios == InitScenarios /\ [][Next]_vars

(***************************************************************************)
(* frank called on its own, over costs of up to MaxPips coloured pips on   *)
(* turns up to MaxTurn and over the deck sizes of the table and one more.  *)
(***************************************************************************)

MaxPips == 3

MaxTurn == 4

FrankColors == {"U", "B", "R"}

FrankCosts == UNION {[1..n -> FrankColors] : n \in 1..MaxPips}

DeckSizes == {40, 50, 60, 80, 99}

FrankCalls ==
    {[constraint |-> Constraint([i \in DOMAIN cost |-> Pip(cost[i])], turn), deck_size |-> d] :
        cost \in FrankCosts, turn \in 1..MaxTurn, d \in DeckSizes}

InitFrank ==
    /\ pc = "call"
    /\ call \in FrankCalls
    /\ ret = None
    /\ constraints = {}
    /\ lands = {}
    /\ model = None
    /\ status = UNKNOWN
    /\ values = None
    /\ result = None

\* frank(constraint, deck_size) returns its results.
FrankReturns ==
    /\ pc = "call"
    /\ ~frank(call.constraint, call.deck_size).raised
    /\ ret' = frank(call.constraint, call.deck_size)
    /\ pc' = "done"
    /\ UNCHANGED <<constraints, lands, model, status, values, result, call>>

\* frank(constraint, deck_size) raises UnsatisfiableConstraint.
FrankRaises ==
    /\ pc = "call"
    /\ frank(call.constraint, call.deck_size).raised
    /\ ret' = frank(call.constraint, call.deck_size)
    /\ pc' = "done"
    /\ UNCHANGED <<constraints, lands, model, status, values, result, call>>

NextFrank == FrankReturns \/ FrankRaises

SpecFrank == InitFrank /\ [][NextFrank]_vars

(***************************************************************************)
(* num_lands called on its own, over mana values up to MaxManaValue and    *)
(* turns up to MaxLandTurn.                                                *)
(***************************************************************************)

MaxManaValue == 5

MaxLandTurn == 9

\* ManaCost(*[W] * mana_value)
WhiteCost(mv) == [i \in 1..mv |-> Pip("W")]

\* ColorCombination([W] * mana_value)
WhiteCombination(mv) == CCOf([i \in 1..mv |-> "W"])

\* The frank call in the try block of num_lands.
NumLandsTry(mv, turn) == frank60(Constraint(WhiteCost(mv), turn))

InitNumLands ==
    /\ pc = "call"
    /\ call \in [mana_value : 0..MaxManaValue, turn : 1..MaxLandTurn]
    /\ ret = None
    /\ constraints = {}
    /\ lands = {}
    /\ model = None
    /\ status = UNKNOWN
    /\ values = None
    /\ result = None

\* The try block returns the entry of the map frank returned.
NumLandsReturns ==
    /\ pc = "call"
    /\ ~NumLandsTry(call.mana_value, call.turn).raised
    /\ WhiteCombination(call.mana_value) \in DOMAIN NumLandsTry(call.mana_value, call.turn).value
    /\ ret' = [Return(num_lands(call.mana_value, call.turn)) EXCEPT !.exc = "none caught"]
    /\ pc' = "done"
    /\ UNCHANGED <<constraints, lands, model, status, values, result, call>>

\* frank raised UnsatisfiableConstraint: the except block returns the entry
\* of four pips on turn 4.
NumLandsFallsBack ==
    /\ pc = "call"
    /\ NumLandsTry(call.mana_value, call.turn).raised
    /\ ret' = [Return(num_lands(call.mana_value, call.turn)) EXCEPT
                  !.exc = NumLandsTry(call.mana_value, call.turn).exc]
    /\ pc' = "done"
    /\ UNCHANGED <<constraints, lands, model, status, values, result, call>>

\* frank returned a map without the combination asked for (a cost of no
\* pips has no colour combination): the subscript raises KeyError.
NumLandsKeyError ==
    /\ pc = "call"
    /\ ~NumLandsTry(call.mana_value, call.turn).raised
    /\ WhiteCombination(call.mana_value) \notin DOMAIN NumLandsTry(call.mana_value, call.turn).value
    /\ ret' = Raise("KeyError")
    /\ pc' = "done"
    /\ UNCHANGED <<constraints, lands, model, status, values, result, call>>

NextNumLands == NumLandsReturns \/ NumLandsFallsBack \/ NumLandsKeyError

SpecNumLands == InitNumLands /\ [][NextNumLands]_vars

(***************************************************************************)
(* card: the shorthand of a cost is a string, kept as the sequence of its  *)
(* characters.  An argument turn of 0 stands for a turn that is not given: *)
(* card tests the truth of turn, and None and 0 are both false.            *)
(***************************************************************************)

Digits == <<"0", "1", "2", "3", "4", "5", "6", "7", "8", "9">>

\* c.isnumeric()
isnumeric(c) == c \in Range(Digits)

\* int(c) of one digit.
DigitValue(c) == (CHOOSE i \in DOMAIN Digits : Digits[i] = c) - 1

RECURSIVE IntOf(_)
\* int(s) of a string of digits.
IntOf(s) ==
    IF s = <<>> THEN 0 ELSE IntOf(SubSeq(s, 1, Len(s) - 1)) * 10 + DigitValue(s[Len(s)])

\* int(s): ValueError unless every character is a digit.
int(s) ==
    IF \A i \in DOMAIN s : isnumeric(s[i]) THEN Return(IntOf(s)) ELSE Raise("ValueError")

\* colors.append(color): the colour goes behind the ones read before.
InsertLast(colors, c) == Append(colors, c)

\* colors.insert(0, color)
InsertFirst(colors, c) == <<c>> \o colors

RECURSIVE CardLoop(_, _, _)
\* The loop of card from the character at i down to the first: it stops at
\* the last digit and reads everything up to it as the generic cost.
CardLoop(spec, i, colors) ==
    IF i = 0 THEN Return([generic |-> 0, colors |-> colors])
    ELSE IF isnumeric(spec[i])
         THEN IF int(SubSeq(spec, 1, i)).raised
              THEN int(SubSeq(spec, 1, i))
              ELSE Return([generic |-> int(SubSeq(spec, 1, i)).value, colors |-> colors])
         ELSE IF spec[i] \in all_colors
              THEN CardLoop(spec, i - 1, InsertFirst(colors, spec[i]))
              ELSE Raise("StopIteration")

card(spec, turn) ==
    LET read == CardLoop(spec, Len(spec), <<>>)
    IN IF read.raised THEN read
       ELSE LET generic == read.value.generic
                colors == read.value.colors
                parts == (IF generic # 0 THEN <<Generic(generic)>> ELSE <<>>)
                         \o [i \in DOMAIN colors |-> Pip(colors[i])]
            IN Return(Constraint(parts, IF turn # 0 THEN turn ELSE generic + Len(colors)))

\* The longest shorthand drawn from CardChars.
MaxSpecLen == 3

\* The greatest turn given to card.
MaxCardTurn == 2

CardChars == {"0", "1", "2", "W", "U", "X"}

CardExamples ==
    {<<"2", "W", "W">>, <<"1", "0", "U", "B">>, <<"X", "B">>, <<"X", "1", "B">>,
     <<"X", "X", "2", "W", "W">>}

CardSpecs == UNION {[1..n -> CardChars] : n \in 1..MaxSpecLen} \cup CardExamples

InitCard ==
    /\ pc = "call"
    /\ call \in [spec : CardSpecs, turn : 0..MaxCardTurn]
    /\ ret = None
    /\ constraints = {}
    /\ lands = {}
    /\ model = None
    /\ status = UNKNOWN
    /\ values = None
    /\ result = None

CardReturns ==
    /\ pc = "call"
    /\ ~card(call.spec, call.turn).raised
    /\ ret' = card(call.spec, call.turn)
    /\ pc' = "done"
    /\ UNCHANGED <<constraints, lands, model, status, values, result, call>>

\* card raises ValueError from int or StopIteration from next.
CardRaises ==
    /\ pc = "call"
    /\ card(call.spec, call.turn).raised
    /\ ret' = card(call.spec, call.turn)
    /\ pc' = "done"
    /\ UNCHANGED <<constraints, lands, model, status, values, result, call>>

NextCard == CardReturns \/ CardRaises

SpecCard == InitCard /\ [][NextCard]_vars

(***************************************************************************)
(* Constraint.color_combinations called on its own, over costs of up to    *)
(* MaxCostLen pips, coloured or generic.                                   *)
(***************************************************************************)

MaxCostLen == 3

CostPips == {Pip("R"), Pip("B"), Pip("G"), Generic(1), Generic(2)}

Costs == UNION {[1..n -> CostPips] : n \in 1..MaxCostLen}

InitCombinations ==
    /\ pc = "call"
    /\ call \in {[constraint |-> Constraint(cost, -1)] : cost \in Costs}
    /\ ret = None
    /\ constraints = {}
    /\ lands = {}
    /\ model = None
    /\ status = UNKNOWN
    /\ values = None
    /\ result = None

ColorCombinationsReturns ==
    /\ pc = "call"
    /\ ret' = Return(color_combinations(call.constraint))
    /\ pc' = "done"
    /\ UNCHANGED <<constraints, lands, model, status, values, result, call>>

NextCombinations == ColorCombinationsReturns

SpecCombinations == InitCombinations /\ [][NextCombinations]_vars

(***************************************************************************)
(* viable_lands called on its own, over the sets of colours of             *)
(* ViableColors and the sets of lands of ViablePool.                       *)
(***************************************************************************)

ViableColors == {"W", "U", "B", "C"}

ViablePool ==
    {Plains, Island, Swamp, CelestialColonnade, StirringWildwood, CreepingTarPit,
     CrumblingNecropolis, MysticGate}

InitViable ==
    /\ pc = "call"
    /\ call \in [colors : (SUBSET ViableColors) \ {{}}, lands : SUBSET ViablePool]
    /\ ret = None
    /\ constraints = {}
    /\ lands = {}
    /\ model = None
    /\ status = UNKNOWN
    /\ values = None
    /\ result = None

ViableLandsReturns ==
    /\ pc = "call"
    /\ ret' = Return(viable_lands(call.colors, call.lands))
    /\ pc' = "done"
    /\ UNCHANGED <<constraints, lands, model, status, values, result, call>>

NextViable == ViableLandsReturns

SpecViable == InitViable /\ [][NextViable]_vars

(***************************************************************************)
(* solve on the inputs that a caller should not pass: no candidate lands,  *)
(* a deck without a coloured pip, a constraint on a turn before the first. *)
(***************************************************************************)

C2_T2 == Constraint(<<Generic(2)>>, 2)
W_T0 == Constraint(<<Pip("W")>>, 0)

CallerErrorInputs ==
    (Decks \X {{}, {Plains}})
    \cup ({{C2_T2}, {W_T0}, {W, W_T0}} \X {{Plains}, {Plains, Island}})

InitCallerErrors ==
    /\ pc = "start"
    /\ \E input \in CallerErrorInputs : constraints = input[1] /\ lands = input[2]
    /\ model = None
    /\ status = UNKNOWN
    /\ values = None
    /\ result = None
    /\ call = None
    /\ ret = None

SpecCallerErrors == InitCallerErrors /\ [][Next]_vars

(***************************************************************************)
(* The variables and constraints that Filter.add_to_model adds, taken on   *)
(* their own: the model of a deck is built and the variables of its        *)
(* Filters take any values that satisfy the constraints on them.  The      *)
(* solutions of the whole model are among these assignments.               *)
(***************************************************************************)

CW_T2 == Constraint(<<Pip("C"), Pip("W")>>, 2)

B_T1 == Constraint(<<Pip("B")>>, 1)

FilterRuleInputs ==
    ({{WU}, {C1WW}, {W, WU}} \X {{Plains, MysticGate}, {Plains, Island, MysticGate}})
    \cup ({{WU, C1WW}, {WB, U_T2}, {CW_T2, U_T2}} \X {{Plains, MysticGate}})
    \cup {<<{C1WW, U_T1, B_T1}, {Island, Swamp, MysticGate, SunkenRuins}>>}

\* new_int_var(0, self.max * 2, ...) for mm_sources, mn_sources, nn_sources.
FilterDomain(land) ==
    [mm : 0..(max(land) * 2), mn : 0..(max(land) * 2), nn : 0..(max(land) * 2)]

\* The values of the variables of one Filter and one constraint that satisfy
\* the constraints add_to_model puts on them, given the land counts.
FilterSolutions(m, f, count) ==
    {t \in FilterDomain(m.lands[f.land]) :
        FilterConstraints(f, m.lands[f.land],
                          [count |-> count, filter |-> (<<f.land, f.constraint>> :> t)])}

RECURSIVE FilterProducts(_, _, _)
\* One choice of FilterSolutions for each of the Filter rules fs.
FilterProducts(m, fs, count) ==
    IF fs = {} THEN {EmptyMap}
    ELSE LET f == CHOOSE x \in fs : TRUE
         IN {(<<f.land, f.constraint>> :> t) @@ v :
                t \in FilterSolutions(m, f, count),
                v \in FilterProducts(m, fs \ {f}, count)}

\* The counts tried for a land: every count of a Filter, and for another
\* land counts on both sides of the thresholds of turns 2 and 3.
CountChoices(land) ==
    IF IsFilter(land) THEN 0..max(land)
    ELSE {0, need_untapped(3) - 1, need_untapped(3), need_untapped(2)}

InitFilterRules ==
    /\ pc = "defined"
    /\ \E input \in FilterRuleInputs :
          /\ constraints = input[1]
          /\ lands = input[2]
          /\ model = define_model(input[1], input[2]).value
    /\ status = UNKNOWN
    /\ values = None
    /\ result = None
    /\ call = None
    /\ ret = None

\* The solver assigns the land variables and the variables of the Filters.
FilterAssign ==
    /\ pc = "defined"
    /\ \E count \in {c \in [DOMAIN model.lands ->
                                 UNION {CountChoices(land) : land \in Range(model.lands)}] :
                         \A i \in DOMAIN model.lands :
                            c[i] \in CountChoices(model.lands[i])} :
          \E v \in FilterProducts(model, model.filters, count) :
             values' = [count |-> count, filter |-> v]
    /\ pc' = "assigned"
    /\ UNCHANGED <<constraints, lands, model, status, result, call, ret>>

NextFilterRules == FilterAssign

SpecFilterRules == InitFilterRules /\ [][NextFilterRules]_vars

(***************************************************************************)
(* untapped_rules of the lands of a model, taken on its own: the model of  *)
(* a deck is built, the land variables take counts and the rule of one     *)
(* land is read on one turn.                                               *)
(***************************************************************************)

\* The last turn untapped_rules is read on.
MaxRuleTurn == 4

UntappedRuleInputs ==
    {WU, C1WU} \X {{Plains, GlacialFortress}, {Island, PortTown},
                   {Plains, Island, GlacialFortress, PortTown},
                   {Island, GlacialFortress, PrairieStream},
                   {Plains, PortTown, IrrigatedFarmland}}

\* The counts tried for a land.
RuleCountChoices(land) == IF land.is_basic THEN {0, 6, 10, 12, 13, 14} ELSE {0, 1, 4}

InitUntappedRules ==
    /\ pc = "defined"
    /\ \E input \in UntappedRuleInputs :
          /\ constraints = {input[1]}
          /\ lands = input[2]
          /\ model = define_model({input[1]}, input[2]).value
    /\ status = UNKNOWN
    /\ values = None
    /\ result = None
    /\ call = None
    /\ ret = None

\* land.untapped_rules(model, turn) under counts of the land variables.
UntappedRulesApply ==
    /\ pc = "defined"
    /\ \E count \in {c \in [DOMAIN model.lands ->
                                 UNION {RuleCountChoices(land) : land \in Range(model.lands)}] :
                         \A i \in DOMAIN model.lands :
                            c[i] \in RuleCountChoices(model.lands[i])},
          i \in DOMAIN model.lands, turn \in 1..MaxRuleTurn :
          /\ values' = [count |-> count, filter |-> EmptyMap]
          /\ call' = [land |-> i, turn |-> turn]
          /\ ret' = Return(Value(untapped_rules(i, model.lands, turn), values'))
    /\ pc' = "applied"
    /\ UNCHANGED <<constraints, lands, model, status, result>>

NextUntappedRules == UntappedRulesApply

SpecUntappedRules == InitUntappedRules /\ [][NextUntappedRules]_vars

(***************************************************************************)
(* Weights.  The objective of define_model above carries the default       *)
(* weights as literals; the weights as an argument of solve are not part   *)
(* of the sources modelled here and follow the description of the          *)
(* objective: 1000 + w_spend * mana_spend + w_lands * total_lands          *)
(* + w_pain * pain + w_sources * total_colored_sources, maximized.         *)
(***************************************************************************)

Weights(mana_spend, total, pain, total_colored_sources) ==
    [mana_spend |-> mana_spend, total_lands |-> total, pain |-> pain,
     total_colored_sources |-> total_colored_sources]

\* The default weights.
WEIGHTS == Weights(6, -10, -2, 1)

\* An objective that subtracts the weighted mana spend.
weighted_objective_less_spend(weights, mana_spend, total, pain, total_colored_sources) ==
    1000 - weights.mana_spend * mana_spend + weights.total_lands * total
         + weights.pain * pain + weights.total_colored_sources * total_colored_sources

weighted_objective(weights, mana_spend, total, pain, total_colored_sources) ==
    1000 + weights.mana_spend * mana_spend + weights.total_lands * total
         + weights.pain * pain + weights.total_colored_sources * total_colored_sources

WeightedObjective(weights, m, a) ==
    weighted_objective(weights, ManaSpend(m, a), TotalLands(m, a), PainOf(m, a),
                       TotalColoredSources(m, a))

\* The answers of solver.solve when the objective carries weights.
WeightedAnswers(m, weights) ==
    LET scored == {<<WeightedObjective(weights, m, [count |-> count]), count>> :
                     count \in FeasibleCounts(m)}
        best == Max({p[1] : p \in scored})
    IN IF scored = {} THEN {[status |-> INFEASIBLE, values |-> None]}
       ELSE {[status |-> OPTIMAL, values |-> a] :
                a \in UNION {Completions(m, p[2]) : p \in {q \in scored : q[1] = best}}}

\* The weights of mana_spend that a solve is given.
SpendWeights == {0 - 12, 0, 6, 9, 10, 12}

WeightInputs ==
    ({{W_T2}, {W}, {C1W}, {W, W_T2}}
        \X {{Plains}, {Island}, {Plains, Island}, {Plains, CavesOfKoilos}})
    \cup {<<{W_T7}, {Plains}>>}

InitWeights ==
    /\ pc = "start"
    /\ \E input \in WeightInputs : constraints = input[1] /\ lands = input[2]
    /\ \E w \in SpendWeights :
          call = [weights |-> [WEIGHTS EXCEPT !.mana_spend = w]]
    /\ model = None
    /\ status = UNKNOWN
    /\ values = None
    /\ result = None
    /\ ret = None

\* status = solver.solve(model.model), the objective carrying the weights.
SolveWeighted ==
    /\ pc = "defined"
    /\ \E answer \in WeightedAnswers(model, call.weights) :
          /\ status' = answer.status
          /\ values' = answer.values
    /\ pc' = "solved"
    /\ UNCHANGED <<constraints, lands, model, result, call, ret>>

\* return Solution(...), its objective the weighted one.
ReturnWeightedSolution ==
    /\ pc = "solved"
    /\ ~not_solved(status)
    /\ \E iteration \in Orders(DOMAIN model.order) :
          result' = [Solution(constraints, status, model, values, iteration)
                        EXCEPT !.objective = WeightedObjective(call.weights, model, values)]
    /\ pc' = "returned"
    /\ UNCHANGED <<constraints, lands, model, status, values, call, ret>>

NextWeights ==
    DefineModel \/ DefineModelRaises \/ SolveWeighted \/ ReturnNone \/ ReturnWeightedSolution

SpecWeights == InitWeights /\ [][NextWeights]_vars

(***************************************************************************)
(* RememberingModel, the store of variables that Model extends.  Its       *)
(* source is not part of the sources modelled here: new_int_var follows    *)
(* the description of the store, which raises KeyCollision when a variable *)
(* is created under a key that the store holds.  The model of the solver   *)
(* above does not go through it.                                           *)
(***************************************************************************)

\* The most variables a store is filled with.
MaxVars == 3

StoreKeys17 == {<<"test">>, <<"other">>, <<"test", "other">>, <<"other", "test">>,
                <<"test", "test">>, <<"other", "other">>}

StoreBounds == {[lb |-> 0, ub |-> 1], [lb |-> 0, ub |-> 2]}

\* A guard that never finds the key.
KeyNeverPresent(store, key) == FALSE

\* key in self.store
KeyPresent(store, key) == key \in DOMAIN store

InitStore ==
    /\ pc = "ready"
    /\ model = [store |-> EmptyMap]
    /\ call = None
    /\ ret = None
    /\ constraints = {}
    /\ lands = {}
    /\ status = UNKNOWN
    /\ values = None
    /\ result = None

\* new_int_var(lb, ub, key) under a key the store does not hold.
NewIntVar ==
    /\ pc = "ready"
    /\ Cardinality(DOMAIN model.store) < MaxVars
    /\ \E key \in StoreKeys17, bounds \in StoreBounds :
          /\ ~KeyPresent(model.store, key)
          /\ model' = [store |-> (key :> bounds) @@ model.store]
          /\ call' = [key |-> key, bounds |-> bounds, store |-> model.store]
          /\ ret' = Return([key |-> key, bounds |-> bounds])
    /\ UNCHANGED <<pc, constraints, lands, status, values, result>>

\* new_int_var(lb, ub, key) under a key the store holds: KeyCollision.
NewIntVarCollides ==
    /\ pc = "ready"
    /\ \E key \in StoreKeys17, bounds \in StoreBounds :
          /\ KeyPresent(model.store, key)
          /\ call' = [key |-> key, bounds |-> bounds, store |-> model.store]
          /\ ret' = Raise("KeyCollision")
    /\ UNCHANGED <<pc, model, constraints, lands, status, values, result>>

NextStore == NewIntVar \/ NewIntVarCollides

SpecStore == InitStore /\ [][NextStore]_vars

(***************************************************************************)
(* The variables define_model asks the store for.  Model extends           *)
(* RememberingModel, so every new_int_var and new_bool_var of              *)
(* Model.__init__, define_model, Conditional.untapped_if and               *)
(* Filter.add_to_model goes through the guard of the store above, in the   *)
(* order of the code.                                                      *)
(***************************************************************************)

\* No resource: the place of the resource in a key that has none.
NoResource == [kind |-> "none", colors |-> [c \in all_colors |-> 0]]

\* A key of the store: the land, the constraint, the turn and the resource
\* it is made of, 0 or NoResource for what it lacks, and its literal part.
Key(land, constraint, turn, resource, part) ==
    [land |-> land, constraint |-> constraint, turn |-> turn, resource |-> resource,
     part |-> part]

StoreRequest(key, lb, ub) == [key |-> key, bounds |-> [lb |-> lb, ub |-> ub]]

\* new_bool_var(key)
new_bool_var(key) == StoreRequest(key, 0, 1)

\* Model.new_required(turn, resource)
new_required(turn, resource) ==
    StoreRequest(Key(0, 0, turn, resource, "required"), 0, MAX_DECK_SIZE)

\* Model.new_sources(turn, resource)
new_sources(turn, resource) ==
    StoreRequest(Key(0, 0, turn, resource, "sources"), 0, MAX_DECK_SIZE)

RECURSIVE Flatten(_)
\* The sequences of a sequence, one after the other.
Flatten(seqs) == IF seqs = <<>> THEN <<>> ELSE Head(seqs) \o Flatten(Tail(seqs))

\* Model.__init__: a variable per land and the six named variables.
ModelInitRequests(m) ==
    [i \in DOMAIN m.lands |-> StoreRequest(Key(i, 0, 0, NoResource, ""), 0, max(m.lands[i]))]
    \o <<StoreRequest(Key(0, 0, 0, NoResource, "min_lands"), 0, MAX_DECK_SIZE),
         StoreRequest(Key(0, 0, 0, NoResource, "mana_spend"), 0, 100),
         StoreRequest(Key(0, 0, 0, NoResource, "max_mana_spend"), 0, 100),
         StoreRequest(Key(0, 0, 0, NoResource, "total_lands"), 0, MAX_DECK_SIZE),
         StoreRequest(Key(0, 0, 0, NoResource, "pain"), 0, 100),
         StoreRequest(Key(0, 0, 0, NoResource, "objective"), 0 - 10000, 10000)>>

\* The first and the final pass over one constraint: new_sources for each of
\* its colour combinations.
SourcesRequests(m, j) ==
    [k \in DOMAIN m.sources[j] |-> new_sources(m.order[j].turn, Resource(m.sources[j][k].cc))]

\* Conditional.untapped_if, when the untapped rule of a land calls it: the
\* indicator under (land, turn, UNTAPPED) and makes_mana_var under (land, turn).
UntappedIfRequests(e, turn) ==
    IF e.kind = "makes_mana"
    THEN <<new_bool_var(Key(e.land, 0, turn, UNTAPPED, "")),
           StoreRequest(Key(e.land, 0, turn, NoResource, ""), 0, 4)>>
    ELSE <<>>

\* Filter.add_to_model for a constraint it does not eject on.
FilterRequests(m, f) ==
    LET hi == max(m.lands[f.land])
    IN <<StoreRequest(Key(f.land, f.constraint, 0, NoResource, ""), 0, hi),
         StoreRequest(Key(f.land, f.constraint, 0, NoResource, "mm"), 0, hi * 2),
         StoreRequest(Key(f.land, f.constraint, 0, NoResource, "mn"), 0, hi * 2),
         StoreRequest(Key(f.land, f.constraint, 0, NoResource, "nn"), 0, hi * 2),
         StoreRequest(Key(f.land, f.constraint, 0, NoResource, "m consumed"), 0, hi),
         StoreRequest(Key(f.land, f.constraint, 0, NoResource, "n consumed"), 0, hi),
         new_bool_var(Key(f.land, f.constraint, 0, NoResource, "can make colored mana"))>>

\* The second loop over one constraint: add_to_model of every land, the
\* required variables and, for a constraint on its curve, the untapped section.
ConstraintRequests(m, j) ==
    LET fs == SetToSeq({f \in m.filters : f.constraint = j})
        turn == m.order[j].turn
        us == m.untapped[j].lands_that_are_untapped_this_turn
    IN Flatten([k \in DOMAIN fs |-> FilterRequests(m, fs[k])])
       \o [k \in DOMAIN m.sources[j] |-> new_required(turn, Resource(m.sources[j][k].cc))]
       \o (IF m.untapped[j].required # 0
           THEN Flatten([k \in DOMAIN us |-> UntappedIfRequests(us[k], turn)])
                \o <<new_sources(turn, UNTAPPED), new_required(turn, UNTAPPED)>>
           ELSE <<>>)

\* One turn of the mana-spend loop.
SpendRequests(m, turn) ==
    LET us == m.spend[turn].untapped_this_turn
    IN Flatten([k \in DOMAIN us |-> UntappedIfRequests(us[k], turn)])
       \o <<new_bool_var(Key(0, 0, turn, NoResource, "can spend mana")),
            StoreRequest(Key(0, 0, turn, NoResource, "max_mana_spend"), turn, turn),
            StoreRequest(Key(0, 0, turn, NoResource, "mana_spend"), turn - 1, turn)>>

\* colored_sources per element of deck_colors, then total_colored_sources.
ColoredSourcesRequests(m) ==
    [k \in DOMAIN m.colored_sources |->
        StoreRequest(Key(0, k, 0, NoResource, "colored_sources"), 0, MAX_DECK_SIZE)]
    \o <<StoreRequest(Key(0, 0, 0, NoResource, "total_colored_sources"), 0, MAX_DECK_SIZE)>>

\* Every request of define_model, in the order of the code.
KeyRequests(m) ==
    ModelInitRequests(m)
    \o Flatten([j \in DOMAIN m.order |-> SourcesRequests(m, j)])
    \o Flatten([j \in DOMAIN m.order |-> ConstraintRequests(m, j)])
    \o Flatten([j \in DOMAIN m.order |-> SourcesRequests(m, j)])
    \o Flatten([turn \in DOMAIN m.spend |-> SpendRequests(m, turn)])
    \o ColoredSourcesRequests(m)

KeyRequestInputs ==
    ({{W}, {WU}, {W, C1W}, {W_T2, C1W}, {W, U_T1}, {C1WW}} \X {{Plains, Island, GlacialFortress}})
    \cup ({{WU}, {C1WW}} \X {{Plains, MysticGate}})
    \cup ({{C2_T2}} \X {{Plains}, {Plains, Island}})

InitKeyRequests ==
    /\ pc = "defining"
    /\ \E input \in KeyRequestInputs : constraints = input[1] /\ lands = input[2]
    /\ model = [store |-> EmptyMap]
    /\ call = [requests |-> KeyRequests(define_model(constraints, candidates(lands)).value),
               next |-> 1]
    /\ ret = None
    /\ status = UNKNOWN
    /\ values = None
    /\ result = None

\* The next new_int_var or new_bool_var of define_model, under a key the
\* store does not hold; after the last one define_model returns.
DefineModelRequest ==
    /\ pc = "defining"
    /\ LET request == call.requests[call.next]
       IN /\ ~KeyPresent(model.store, request.key)
          /\ model' = [store |-> (request.key :> request.bounds) @@ model.store]
          /\ ret' = Return(request)
    /\ call' = [call EXCEPT !.next = @ + 1]
    /\ pc' = IF call.next = Len(call.requests) THEN "defined" ELSE "defining"
    /\ UNCHANGED <<constraints, lands, status, values, result>>

\* The next request is under a key the store holds: KeyCollision leaves
\* define_model.
DefineModelCollides ==
    /\ pc = "defining"
    /\ KeyPresent(model.store, call.requests[call.next].key)
    /\ ret' = Raise("KeyCollision")
    /\ pc' = "raised"
    /\ UNCHANGED <<model, call, constraints, lands, status, values, result>>

NextKeyRequests == DefineModelRequest \/ DefineModelCollides

SpecKeyRequests == InitKeyRequests /\ [][NextKeyRequests]_vars

(***************************************************************************)
(* Properties of frank                                                     *)
(***************************************************************************)

\* The table has an entry for the colour combination cc on the turn at the
\* deck size.
HasEntry(cc, turn, deck_size) ==
    /\ <<CCLen(cc), turn>> \in DOMAIN table
    /\ deck_size \in DOMAIN table[<<CCLen(cc), turn>>]

RRB_T3 == Constraint(<<Pip("R"), Pip("R"), Pip("B")>>, 3)

\* C9: Frank lookup.  When every colour combination of the constraint has an
\* entry at a deck size of the table, frank returns a map whose keys are
\* exactly the colour combinations and whose value for each is the entry
\* keyed by its number of pips and the turn; U on turn 1 at 60 gives U:14 and
\* RRB on turn 3 at 60 gives R:12, B:12, RR:18, RB:18, RRB:23.
C9_FrankLookup ==
    (pc = "done" /\ call.deck_size \in {40, 60, 80, 99}
       /\ \A cc \in color_combinations(call.constraint) :
             HasEntry(cc, call.constraint.turn, call.deck_size))
    => /\ ~ret.raised
       /\ DOMAIN ret.value = color_combinations(call.constraint)
       /\ \A cc \in color_combinations(call.constraint) :
             ret.value[cc] = table[<<CCLen(cc), call.constraint.turn>>][call.deck_size]
       /\ (call = [constraint |-> U_T1, deck_size |-> 60])
             => ret.value = (CCOf(<<"U">>) :> 14)
       /\ (call = [constraint |-> RRB_T3, deck_size |-> 60])
             => ret.value = (CCOf(<<"R">>) :> 12) @@ (CCOf(<<"B">>) :> 12)
                            @@ (CCOf(<<"R", "R">>) :> 18) @@ (CCOf(<<"R", "B">>) :> 18)
                            @@ (CCOf(<<"R", "R", "B">>) :> 23)

\* frank has returned the map of RRB on turn 3 at 60.
C9_Witness ==
    /\ pc = "done"
    /\ call = [constraint |-> RRB_T3, deck_size |-> 60]
    /\ ~ret.raised
    /\ Cardinality(DOMAIN ret.value) = 5

\* C10: frank raises UnsatisfiableConstraint exactly when some colour
\* combination of the constraint has no entry for its number of pips and the
\* turn at the deck size, and then it returns no map, not even a partial one.
C10_FrankRaises ==
    pc = "done"
    => /\ ret.raised <=> \E cc \in color_combinations(call.constraint) :
                            ~HasEntry(cc, call.constraint.turn, call.deck_size)
       /\ ret.raised => (ret.exc = "UnsatisfiableConstraint" /\ ret.value = None)

\* frank has raised on a constraint of which one colour combination has an
\* entry and another has none.
C10_Witness ==
    /\ pc = "done"
    /\ ret.raised
    /\ \E cc \in color_combinations(call.constraint) :
          HasEntry(cc, call.constraint.turn, call.deck_size)
    /\ \E cc \in color_combinations(call.constraint) :
          ~HasEntry(cc, call.constraint.turn, call.deck_size)

(***************************************************************************)
(* Properties of solve                                                     *)
(***************************************************************************)

\* solve has returned a Solution.
IsSolution == pc = "returned" /\ result # None

\* The position of the constraint c in the model.
PositionOf(c) == CHOOSE j \in DOMAIN model.order : model.order[j] = c

\* What the Solution reports under a key of sources; nothing is kept under a
\* key whose value is 0.
Reported(key) == IF key \in DOMAIN result.sources THEN result.sources[key] ELSE 0

\* The sum of the contributions of all viable lands to cc for c.
ContributionSum(c, cc) ==
    SumOver(DOMAIN model.lands,
            [i \in DOMAIN model.lands |->
                Value(add_to_model(i, model.lands, PositionOf(c), model.order, cc), values)])

\* C1: Source sufficiency.  In every Solution, for every constraint c and
\* every colour combination cc of c, the sources reported under (c.turn, cc)
\* equal the sum of the contributions of all viable lands to cc for c and
\* are at least the Frank number of cc for c.
C1_SourceSufficiency ==
    IsSolution
    => \A c \in constraints :
          \A cc \in color_combinations(c) :
             /\ Reported(<<c.turn, Resource(cc)>>) = ContributionSum(c, cc)
             /\ Reported(<<c.turn, Resource(cc)>>) >= frank60(c).value[cc]

\* C2: Total lands bound.  In every Solution min_lands <= total_lands <=
\* deck size, where min_lands is the greatest num_lands(mana_value, turn)
\* of a constraint.
C2_TotalLandsBound ==
    IsSolution
    => /\ result.min_lands <= total_lands(result)
       /\ total_lands(result) <= DefaultDeckSize
       /\ result.min_lands =
             Max({num_lands(mana_value(c.required), c.turn) : c \in constraints})

\* The copies a land may have: 4, or 100 for a basic land.
MaxCopies(land) == IF land.is_basic THEN 100 ELSE 4

\* C3: Count bounds.  In every Solution every land has between 0 and its
\* maximum number of copies (4 for a non-basic land, 100 for a basic land),
\* and a candidate land that viable_lands rejects is not in Solution.lands.
C3_CountBounds ==
    IsSolution
    => /\ \A i \in DOMAIN model.lands :
             0 <= values.count[i] /\ values.count[i] <= MaxCopies(model.lands[i])
       /\ \A land \in DOMAIN result.lands :
             0 <= result.lands[land] /\ result.lands[land] <= MaxCopies(land)
       /\ \A land \in candidates(lands) :
             ~Viable(find_colors(constraints), land) => land \notin DOMAIN result.lands

\* A Solution with four copies of a non-basic land, found over candidates of
\* which viable_lands rejected one.
C3_Witness ==
    /\ IsSolution
    /\ \E land \in candidates(lands) : ~Viable(find_colors(constraints), land)
    /\ \E land \in DOMAIN result.lands : ~land.is_basic /\ result.lands[land] = 4

\* The cost has a generic pip.
HasGeneric(c) == \E k \in DOMAIN c.required : c.required[k].kind = "generic"

\* The viable lands admitted to the untapped sum of c: all of them when the
\* cost has a generic pip, else those that produce one of the colours of c.
Admissible(c) ==
    {i \in DOMAIN model.lands :
        \/ HasGeneric(c)
        \/ \E k \in DOMAIN c.required :
              /\ c.required[k].kind = "color"
              /\ c.required[k].color \in Range(model.lands[i].produces)}

\* The sum of untapped_rules(turn of c) over the lands admitted for c.
UntappedSum(c) ==
    SumOver(Admissible(c),
            [i \in Admissible(c) |-> Value(untapped_rules(i, model.lands, c.turn), values)])

\* C4: Untapped sufficiency.  For every constraint whose turn equals its mana
\* value the untapped lands among the admitted lands number at least
\* need_untapped(turn) in every Solution; a constraint whose turn differs
\* from its mana value adds no untapped requirement.
C4_UntappedSufficiency ==
    IsSolution
    => \A c \in constraints :
          /\ c.turn = mana_value(c.required) => UntappedSum(c) >= need_untapped(c.turn)
          /\ c.turn # mana_value(c.required) => model.untapped[PositionOf(c)].required = 0

\* A Solution for a deck with a constraint on its curve that admits only some
\* of the viable lands, and with a constraint off its curve whose admitted
\* lands have fewer untapped than need_untapped.
C4_Witness ==
    /\ IsSolution
    /\ \E c \in constraints :
          /\ c.turn = mana_value(c.required)
          /\ Admissible(c) # DOMAIN model.lands
          /\ UntappedSum(c) >= need_untapped(c.turn)
    /\ \E c \in constraints :
          /\ c.turn # mana_value(c.required)
          /\ UntappedSum(c) < need_untapped(c.turn)

C6_TotalColoredSources ==
    IsSolution
    => TotalColoredSources(model, values) =
          SumOver(find_colors(constraints),
                  [color \in find_colors(constraints) |->
                      CountOf({i \in DOMAIN model.lands :
                                  color \in Range(model.lands[i].produces)}, values.count)])

\* The largest turn of a constraint.
LastTurn == Max({c.turn : c \in constraints})

\* What turn t spends: t when the untapped lands among all viable lands
\* number at least num_lands(t, t), else t - 1.
SpendOn(t) ==
    IF SumOver(DOMAIN model.lands,
               [i \in DOMAIN model.lands |-> Value(untapped_rules(i, model.lands, t), values)])
          >= num_lands(t, t)
    THEN t ELSE t - 1

\* C7: Mana spend.  mana_spend is the sum over the turns 1..T of what each
\* turn spends, max_mana_spend is T(T+1)/2, and mana_spend lies between
\* max_mana_spend - T and max_mana_spend.
C7_ManaSpend ==
    IsSolution
    => /\ result.mana_spend = SumOver(1..LastTurn, [t \in 1..LastTurn |-> SpendOn(t)])
       /\ 2 * result.max_mana_spend = LastTurn * (LastTurn + 1)
       /\ result.max_mana_spend - LastTurn <= result.mana_spend
       /\ result.mana_spend <= result.max_mana_spend

\* A Solution in which one turn has enough untapped lands and another is short.
C7_Witness ==
    /\ IsSolution
    /\ \E t \in 1..LastTurn : SpendOn(t) = t
    /\ \E t \in 1..LastTurn : SpendOn(t) = t - 1
    /\ result.mana_spend < result.max_mana_spend

\* C8: Infeasible solve.  solve returns None, without raising, exactly when no
\* land counts satisfy the constraints of the built model; otherwise it
\* returns a Solution whose status is OPTIMAL or FEASIBLE.
C8_InfeasibleNone ==
    pc = "returned"
    => /\ result = None <=> ~ \E count \in CountSpace(model) : Satisfies(model, count)
       /\ result # None => result.status \in {OPTIMAL, FEASIBLE}

\* solve has returned None for a model with land variables.
C8_Witness ==
    /\ pc = "returned"
    /\ result = None
    /\ Len(model.lands) > 0

(***************************************************************************)
(* Properties of num_lands                                                 *)
(***************************************************************************)

\* C11: num_lands(mana_value, turn) returns the table entry keyed
\* (mana_value, turn) at 60 cards whenever mana_value <= 4 and turn <= 7, and
\* it falls back to the entry of (4, 4) only when turn > 7 or mana_value > 4.
C11_NumLands ==
    (pc = "done" /\ call.mana_value >= 1)
    => /\ (call.mana_value <= 4 /\ call.turn <= 7)
            => (~ret.raised
                /\ ret.value = TableGet(call.mana_value, call.turn, DefaultDeckSize))
       /\ (~ret.raised /\ ret.exc = "UnsatisfiableConstraint")
            => (call.turn > 7 \/ call.mana_value > 4)

(***************************************************************************)
(* Properties of solve over the scenarios                                  *)
(***************************************************************************)

\* The constraint has between 1 and 4 coloured pips and a turn in 1..7 that
\* is at least its number of coloured pips.
InNormalOperation(c) ==
    /\ Len(colored_pips(c.required)) \in 1..4
    /\ c.turn \in 1..7
    /\ c.turn >= Len(colored_pips(c.required))

\* C12: when every constraint of the deck has between 1 and 4 coloured pips
\* and a turn in 1..7 that is at least its number of coloured pips,
\* define_model, and so solve, does not raise UnsatisfiableConstraint.
C12_NoUnsatisfiableConstraint ==
    (\A c \in constraints : InNormalOperation(c))
    => ~(pc = "raised" /\ result = [exception |-> "UnsatisfiableConstraint"])

(***************************************************************************)
(* Properties of card                                                      *)
(***************************************************************************)

\* The number of leading characters of s that are in the set chars.
Leading(s, chars) ==
    Max({n \in 0..Len(s) : \A i \in 1..n : s[i] \in chars})

RECURSIVE Power10(_)
Power10(n) == IF n = 0 THEN 1 ELSE 10 * Power10(n - 1)

\* The decimal number a string of digits writes.
Decimal(s) ==
    SumOver(DOMAIN s, [i \in DOMAIN s |-> DigitValue(s[i]) * Power10(Len(s) - i)])

\* The shorthand is x letters X, then a decimal prefix, then one colour
\* letter or more.
Shorthand(s, x) ==
    LET rest == SubSeq(s, x + 1, Len(s))
        g == Leading(rest, Range(Digits))
    IN /\ x <= Len(s)
       /\ \A i \in 1..x : s[i] = "X"
       /\ g < Len(rest)
       /\ \A i \in (g + 1)..Len(rest) : rest[i] \in all_colors

\* The generic value and the colour letters of a shorthand behind x letters X.
GenericOf(s, x) ==
    LET rest == SubSeq(s, x + 1, Len(s))
    IN Decimal(SubSeq(rest, 1, Leading(rest, Range(Digits))))

LettersOf(s, x) ==
    LET rest == SubSeq(s, x + 1, Len(s))
    IN SubSeq(rest, Leading(rest, Range(Digits)) + 1, Len(rest))

\* C13: for a string of an optional decimal prefix g and k >= 1 colour
\* letters card returns a Constraint whose cost is the generic pip g, left
\* out when g = 0, followed by the k colours in order; its turn is the turn
\* given and otherwise g + k, the mana value of the cost.  "2WW" gives the
\* cost 2, W, W on turn 4.
C13_CardShorthand ==
    (pc = "done" /\ Shorthand(call.spec, 0))
    => LET g == GenericOf(call.spec, 0)
           letters == LettersOf(call.spec, 0)
       IN /\ ~ret.raised
          /\ ret.value.required =
                (IF g = 0 THEN <<>> ELSE <<[kind |-> "generic", color |-> "", n |-> g]>>)
                \o [i \in DOMAIN letters |->
                       [kind |-> "color", color |-> letters[i], n |-> 1]]
          /\ ret.value.turn = (IF call.turn # 0 THEN call.turn ELSE g + Len(letters))
          /\ g + Len(letters) = mana_value(ret.value.required)
          /\ (call = [spec |-> <<"2", "W", "W">>, turn |-> 0])
                => ret.value = [required |-> <<Generic(2), Pip("W"), Pip("W")>>, turn |-> 4]

\* card has returned the Constraint of a shorthand of a generic prefix of
\* two digits and two different colours, with no turn given.
C13_Witness ==
    /\ pc = "done"
    /\ call = [spec |-> <<"1", "0", "U", "B">>, turn |-> 0]
    /\ ~ret.raised
    /\ ret.value.turn = 12

\* C14: card accepts letters X in front of the shorthand and counts each as
\* one toward the default turn: the turn is the number of X plus the generic
\* value plus the number of colour letters, so "XB" is on turn 2, "X1B" on
\* turn 3 and "XX2WW" on turn 6.
C14_CardX ==
    (pc = "done" /\ call.turn = 0)
    => \A x \in 1..Len(call.spec) :
          Shorthand(call.spec, x)
          => /\ ~ret.raised
             /\ ret.value.turn = x + GenericOf(call.spec, x) + Len(LettersOf(call.spec, x))

(***************************************************************************)
(* Properties of color_combinations                                        *)
(***************************************************************************)

\* The number of pips of the colour c in a cost.
Multiplicity(cost, c) ==
    Cardinality({i \in DOMAIN cost : cost[i].kind = "color" /\ cost[i].color = c})

RECURSIVE ProductOver(_, _)
\* The product of f[x] over the elements x of the finite set S.
ProductOver(S, f) ==
    IF S = {} THEN 1
    ELSE LET x == CHOOSE y \in S : TRUE IN f[x] * ProductOver(S \ {x}, f)

\* The multisets of colours that are part of the coloured pips of the cost
\* and are not empty, each as its per-colour counts.
SubMultisets(cost) ==
    LET used == {c \in all_colors : Multiplicity(cost, c) > 0}
        most == Max({Multiplicity(cost, c) : c \in all_colors})
    IN {cc \in {[c \in all_colors |-> IF c \in used THEN f[c] ELSE 0] :
                   f \in [used -> 0..most]} :
           /\ \A c \in all_colors : cc[c] <= Multiplicity(cost, c)
           /\ \E c \in all_colors : cc[c] > 0}

\* C15: color_combinations() is exactly the set of the non-empty
\* sub-multisets of the coloured pips, told apart by their per-colour counts
\* whatever the order of the pips; generic pips add nothing; with the
\* multiplicity m_c of each colour there are prod(m_c + 1) - 1 of them, and
\* RRB gives R, B, RR, RB, RRB.
C15_ColorCombinations ==
    pc = "done"
    => LET cost == call.constraint.required
       IN /\ ret.value = SubMultisets(cost)
          /\ Cardinality(ret.value) =
                ProductOver(all_colors,
                            [c \in all_colors |-> Multiplicity(cost, c) + 1]) - 1
          /\ (cost = <<Pip("R"), Pip("R"), Pip("B")>>)
                => ret.value = {CCOf(<<"R">>), CCOf(<<"B">>), CCOf(<<"R", "R">>),
                                CCOf(<<"R", "B">>), CCOf(<<"R", "R", "B">>)}

\* color_combinations has returned the five combinations of a cost with a
\* generic pip and a colour that comes twice, its pips not side by side.
C15_Witness ==
    /\ pc = "done"
    /\ call.constraint.required = <<Pip("R"), Generic(2), Pip("R")>>
    /\ ret.value = {CCOf(<<"R">>), CCOf(<<"R", "R">>)}

(***************************************************************************)
(* Properties of viable_lands                                              *)
(***************************************************************************)

\* The colours of the deck that the land produces.
DeckColoursOf(land, colors) == {c \in colors : \E i \in DOMAIN land.produces : land.produces[i] = c}

\* The colours other than colourless that the land produces.
ColouredOf(land) == {land.produces[i] : i \in DOMAIN land.produces} \ {"C"}

\* C16: viable_lands(colors, candidates) returns exactly the candidates that
\* are a Basic producing at least one deck colour or produce at least two
\* deck colours, and that do not produce more than two colours other than
\* colourless while the deck has at most two colours; no land that produces
\* none of the deck's colours is returned, and for W, U over Plains, Island,
\* Swamp, Celestial Colonnade, Stirring Wildwood and Creeping Tar Pit the
\* result is Plains, Island and Celestial Colonnade.
C16_ViableLands ==
    pc = "done"
    => /\ ret.value =
             {L \in call.lands :
                 /\ \/ (L.kind = "Basic" /\ Cardinality(DeckColoursOf(L, call.colors)) >= 1)
                    \/ Cardinality(DeckColoursOf(L, call.colors)) >= 2
                 /\ ~(Cardinality(call.colors) <= 2 /\ Cardinality(ColouredOf(L)) > 2)}
       /\ \A L \in ret.value : DeckColoursOf(L, call.colors) # {}
       /\ (/\ call.colors = {"W", "U"}
           /\ call.lands = {Plains, Island, Swamp, CelestialColonnade, StirringWildwood,
                            CreepingTarPit})
             => ret.value = {Plains, Island, CelestialColonnade}

\* viable_lands has dropped a land of three colours, two of them the two
\* colours of the deck, and kept a land of those two colours.
C16_Witness ==
    /\ pc = "done"
    /\ call.colors = {"U", "B"}
    /\ {CrumblingNecropolis, CreepingTarPit} \subseteq call.lands
    /\ CreepingTarPit \in ret.value
    /\ CrumblingNecropolis \notin ret.value

(***************************************************************************)
(* Properties of the store of variables                                    *)
(***************************************************************************)

OptimalSpends(w) ==
    {ManaSpend(model, answer.values) :
        answer \in {x \in WeightedAnswers(model, [call.weights EXCEPT !.mana_spend = w]) :
                       x.status = OPTIMAL}}

\* C18: with the deck, the candidate lands and the weights of total_lands,
\* pain and total_colored_sources fixed, every optimal solution under a
\* weight w2 of mana_spend has a mana_spend that is at least the mana_spend
\* of every optimal solution under a smaller weight w1.
C18_WeightMonotonicity ==
    (pc = "returned" /\ result # None)
    => \A w1 \in SpendWeights :
          w1 < call.weights.mana_spend
          => \A spend \in OptimalSpends(w1) : result.mana_spend >= spend

\* A solve under the largest weight has returned a solution that spends
\* more mana than an optimal solution under the smallest weight does.
C18_Witness ==
    /\ pc = "returned"
    /\ result # None
    /\ call.weights.mana_spend = 12
    /\ \E spend \in OptimalSpends(0 - 12) : result.mana_spend > spend

(***************************************************************************)
(* Properties of the scenarios of test_solve                               *)
(***************************************************************************)

\* The number of copies of land in a solution.
CopiesOf(solution, land) ==
    IF land \in DOMAIN solution.lands THEN solution.lands[land] ELSE 0

\* C19: for the deck {W on turn 1} with the candidates Plains, Island and
\* Mystic Gate and the deck size 60, solve raises nothing, the solver answers
\* OPTIMAL, and the Solution that is returned holds 14 Plains and no other
\* land.
C19_MonoWhite ==
    (constraints = {W} /\ lands = {Plains, Island, MysticGate})
    => /\ pc # "raised"
       /\ pc = "solved" => status = OPTIMAL
       /\ pc = "returned"
             => /\ result # None
                /\ result.status = OPTIMAL
                /\ DOMAIN result.lands = {Plains}
                /\ result.lands[Plains] = 14

\* The mono-white solve has returned a Solution.
C19_Witness ==
    /\ constraints = {W}
    /\ lands = {Plains, Island, MysticGate}
    /\ pc = "returned"
    /\ result # None

\* C20: over the candidates Plains, Island and Prairie Stream every optimal
\* solution for {1W on turn 2, 1U on turn 2} holds 4 Prairie Stream and
\* every optimal solution for {W on turn 1, U on turn 1} holds none.
C20_LightVsIntense ==
    (lands = basics_and_tango /\ pc = "returned" /\ result # None)
    => /\ constraints = {C1W, C1U} => CopiesOf(result, PrairieStream) = 4
       /\ constraints = {W, U_T1} => CopiesOf(result, PrairieStream) = 0

\* Both solves have an optimal solution: this state is the intense one.
C20_Witness ==
    /\ lands = basics_and_tango
    /\ constraints = {W, U_T1}
    /\ pc = "returned"
    /\ result # None
    /\ CopiesOf(result, Plains) > 0

(***************************************************************************)
(* Properties of solve on the inputs of a caller error                     *)
(***************************************************************************)

\* The candidate lands are empty, the deck has no coloured pip, or a
\* constraint has a turn before the first.
CallerError ==
    \/ lands = {}
    \/ find_colors(constraints) = {}
    \/ \E c \in constraints : c.turn < 1

\* C21: when the candidate lands are empty, the deck has no coloured pip or a
\* constraint has a turn below 1, solve fails before a model is built or
\* solved: it uses no other lands in place of the given ones and returns
\* neither a Solution nor None.
C21_InputValidation ==
    CallerError => pc \in {"start", "raised"}

(***************************************************************************)
(* Properties of the Filter lands                                          *)
(***************************************************************************)

\* The land produces one of the colours the constraint asks for.
ProducesRequested(land, c) ==
    \E cc \in color_combinations(c) : can_produce_any(land, cc)

\* The Filters of the model paired with the constraints after turn 1 for
\* which they produce a requested colour.
FilterPairs ==
    {p \in (DOMAIN model.lands) \X (DOMAIN model.order) :
        /\ IsFilter(model.lands[p[1]])
        /\ model.order[p[2]].turn > 1
        /\ ProducesRequested(model.lands[p[1]], model.order[p[2]])}

\* The rule the model holds for a pair.
RuleOf(p) == CHOOSE f \in model.filters : f.land = p[1] /\ f.constraint = p[2]

\* The active indicator of a pair under the assigned values.
ActiveOf(p) == CountOf(RuleOf(p).enablers, values.count) >= RuleOf(p).required

\* C22: for every Filter L and every constraint after turn 1 for which L
\* produces a requested colour, the assigned values satisfy
\* mm + mn + nn = 2 * (m_consumed + n_consumed) and
\* mm + mn + nn - m_consumed - n_consumed = count[L] for some m_consumed and
\* n_consumed of at most count[L]; mm, mn and nn are each at most
\* 2 * count[L]; and mm = mn = nn = 0 when the Filter is not active.
C22_FilterArithmetic ==
    pc = "assigned"
    => \A p \in FilterPairs :
          /\ p \in DOMAIN values.filter
          /\ \E f \in model.filters : f.land = p[1] /\ f.constraint = p[2]
          /\ LET v == values.filter[p]
                 g == values.count[p[1]]
             IN /\ \E m_consumed, n_consumed \in 0..g :
                      /\ v.mm + v.mn + v.nn = 2 * (m_consumed + n_consumed)
                      /\ v.mm + v.mn + v.nn - m_consumed - n_consumed = g
                /\ v.mm <= 2 * g /\ v.mn <= 2 * g /\ v.nn <= 2 * g
                /\ ~ActiveOf(p) => (v.mm = 0 /\ v.mn = 0 /\ v.nn = 0)

\* An active Mystic Gate with three copies whose six double pips are split
\* over mm, mn and nn.
C22_Witness ==
    /\ pc = "assigned"
    /\ \E p \in FilterPairs :
          /\ ActiveOf(p)
          /\ values.count[p[1]] = 3
          /\ values.filter[p] = [mm |-> 1, mn |-> 3, nn |-> 2]

\* The lands whose counts the activation of the Filter of a pair sums on the
\* turn of the pair: the lands that produce one of the two colours of the
\* Filter, the Filters among them left out up to turn 2.
ActivationLands(p) ==
    LET land == model.lands[p[1]]
        turn == model.order[p[2]].turn
    IN {k \in DOMAIN model.lands :
          /\ Range(model.lands[k].produces) \cap {land.produces[1], land.produces[2]} # {}
          /\ turn <= 2 => ~IsFilter(model.lands[k])}

\* C23: for a Filter that produces M and N and a turn t after the first, the
\* Filter is active exactly when the counts of the viable lands that produce
\* M or N, without the Filters when t <= 2 and with them when t >= 3, sum to
\* at least need_untapped(t); it then counts as untapped, and on turn 1 it is
\* never untapped.
C23_FilterActivation ==
    pc = "assigned"
    => \A p \in FilterPairs :
          LET turn == model.order[p[2]].turn
              enough == CountOf(ActivationLands(p), values.count) >= need_untapped(turn)
          IN /\ ActiveOf(p) <=> enough
             /\ Value(untapped_rules(p[1], model.lands, turn), values)
                   = (IF enough THEN values.count[p[1]] ELSE 0)
             /\ Value(untapped_rules(p[1], model.lands, 1), values) = 0

\* The constraint is on turn 2 and has two coloured pips, one of which is
\* neither of the two colours of the Filter.
ImpossibleOnTurn2(land, c) ==
    LET coloured == SelectSeq(colored_pips(c.required), LAMBDA x : x # "C")
    IN /\ c.turn = 2
       /\ Len(coloured) = 2
       /\ \E k \in DOMAIN coloured : coloured[k] \notin {land.produces[1], land.produces[2]}

\* The number of pips of the colour in a colour combination.
PipsOf(cc, colour) == cc[colour]

\* The colour combination holds one pip, of the colour.
Exactly(cc, colour) == \A x \in DOMAIN cc : cc[x] = (IF x = colour THEN 1 ELSE 0)

\* C24: for a Filter that produces M and N and a constraint after turn 1
\* that asks for M or N, the contribution to a colour combination cc is mm
\* if cc has two M or more, else mn if cc has an M and an N, else nn if cc
\* has two N or more, else count[L] if cc is exactly {M} or {N} and the
\* constraint is not the impossible one of turn 2, else count[L] if cc has a
\* C, else 0.
C24_FilterContribution ==
    model # None
    => \A p \in FilterPairs :
          LET land == model.lands[p[1]]
              c == model.order[p[2]]
              M == land.produces[1]
              N == land.produces[2]
          IN \A cc \in color_combinations(c) :
                add_to_model(p[1], model.lands, p[2], model.order, cc)
                  = (IF PipsOf(cc, M) >= 2 THEN FilterVar(p[1], p[2], "mm")
                     ELSE IF PipsOf(cc, M) >= 1 /\ PipsOf(cc, N) >= 1
                          THEN FilterVar(p[1], p[2], "mn")
                     ELSE IF PipsOf(cc, N) >= 2 THEN FilterVar(p[1], p[2], "nn")
                     ELSE IF (Exactly(cc, M) \/ Exactly(cc, N)) /\ ~ImpossibleOnTurn2(land, c)
                          THEN LandVar(p[1])
                     ELSE IF PipsOf(cc, "C") >= 1 THEN LandVar(p[1])
                     ELSE Zero)

\* For WU on turn 2 Mystic Gate contributes its count to {W} and to {U} and
\* its own mn variable to {W, U}.
C24_Witness ==
    /\ pc = "assigned"
    /\ constraints = {WU}
    /\ \E i \in DOMAIN model.lands :
          /\ model.lands[i] = MysticGate
          /\ values.count[i] = 2
          /\ values.filter[<<i, 1>>].mn = 3
          /\ Value(add_to_model(i, model.lands, 1, model.order, CCOf(<<"W">>)), values) = 2
          /\ Value(add_to_model(i, model.lands, 1, model.order, CCOf(<<"W", "U">>)), values) = 3
          /\ add_to_model(i, model.lands, 1, model.order, CCOf(<<"W">>)) = LandVar(i)
          /\ add_to_model(i, model.lands, 1, model.order, CCOf(<<"U">>)) = LandVar(i)
          /\ add_to_model(i, model.lands, 1, model.order, CCOf(<<"W", "U">>))
                = FilterVar(i, 1, "mn")

(***************************************************************************)
(* Properties of the Tango lands                                           *)
(***************************************************************************)

\* The colour combination holds a colour that the land produces.
HoldsColourOf(cc, land) == \E k \in DOMAIN land.produces : cc[land.produces[k]] >= 1

\* C25: a Tango land L contributes 0 to every colour combination of a
\* constraint of turn 1; to a constraint of a later turn it contributes
\* count[L] to every combination that holds a colour L produces and 0 to
\* every other combination.
C25_TangoContribution ==
    (pc \in {"solved", "returned"} /\ status = OPTIMAL)
    => \A i \in DOMAIN model.lands :
          model.lands[i].kind = "Tango"
          => \A j \in DOMAIN model.order :
                \A cc \in color_combinations(model.order[j]) :
                   LET contribution == add_to_model(i, model.lands, j, model.order, cc)
                   IN /\ contribution
                           = (IF model.order[j].turn = 1 THEN Zero
                              ELSE IF HoldsColourOf(cc, model.lands[i]) THEN LandVar(i)
                              ELSE Zero)
                      /\ Value(contribution, values) \in {0, values.count[i]}

\* Prairie Stream contributes nothing to {U} for U on turn 1 and its land
\* variable to {U} for 2U on turn 3.
C25_Witness ==
    /\ pc = "solved"
    /\ status = OPTIMAL
    /\ {U_T1, C2U} \subseteq constraints
    /\ \E i \in DOMAIN model.lands :
          /\ model.lands[i] = PrairieStream
          /\ \E j, k \in DOMAIN model.order :
                /\ model.order[j] = U_T1
                /\ model.order[k] = C2U
                /\ add_to_model(i, model.lands, j, model.order, CCOf(<<"U">>)) = Zero
                /\ add_to_model(i, model.lands, k, model.order, CCOf(<<"U">>)) = LandVar(i)

(***************************************************************************)
(* Properties of the Check and Snarl lands                                 *)
(***************************************************************************)

\* The lands of the model with a basic land type of a colour that the land
\* produces.
TypedLands(land) ==
    {k \in DOMAIN model.lands :
        \E bt \in all_basic_land_types :
           /\ bt.produces \in Range(land.produces)
           /\ bt.name \in model.lands[k].types}

\* The count that makes a Check or a Snarl untapped on a turn.
Threshold(land, turn) ==
    IF land.kind = "Check" THEN need_untapped(turn) ELSE num_lands(turn, turn)

\* C26: untapped_rules of a Check or a Snarl L on a turn t is count[L] when
\* the counts of the viable lands with a basic land type of a colour L
\* produces sum to the threshold or more and 0 otherwise; the threshold is
\* need_untapped(t) for a Check, which is never untapped on turn 1, and
\* num_lands(t, t) for a Snarl.
C26_CheckSnarlUntapped ==
    (pc = "applied" /\ model.lands[call.land].kind \in {"Check", "Snarl"})
    => LET land == model.lands[call.land]
       IN ret.value
            = (IF land.kind = "Check" /\ call.turn = 1 THEN 0
               ELSE IF CountOf(TypedLands(land), values.count) >= Threshold(land, call.turn)
                    THEN values.count[call.land]
               ELSE 0)

\* A Check land is untapped on turn 2 thanks to 13 lands with a type, one of
\* them not a basic land.
C26_Witness ==
    /\ pc = "applied"
    /\ model.lands[call.land] = GlacialFortress
    /\ call.turn = 2
    /\ values.count[call.land] = 4
    /\ ret.value = 4
    /\ CountOf(TypedLands(GlacialFortress), values.count) = 13
    /\ \E k \in TypedLands(GlacialFortress) :
          ~model.lands[k].is_basic /\ values.count[k] = 1

\* The lands of the model, Filters left out, that produce one of the two
\* colours of the Filter of a pair.
NonFilterProducers(p) ==
    LET land == model.lands[p[1]]
    IN {k \in DOMAIN model.lands :
          /\ ~IsFilter(model.lands[k])
          /\ \E x \in DOMAIN model.lands[k].produces :
                model.lands[k].produces[x] \in {land.produces[1], land.produces[2]}}

\* C29: a Filter has a positive count only if, for every constraint after
\* turn 1 for which it produces a requested colour, the counts of the lands
\* other than Filters that produce one of its two colours sum to at least
\* need_untapped(turn); when they sum to less, the count of the Filter is 0
\* and not only its mm, mn and nn.
C29_FilterNeedsEnablers ==
    pc = "assigned"
    => \A p \in FilterPairs :
          LET turn == model.order[p[2]].turn
              missed == CountOf(NonFilterProducers(p), values.count) < need_untapped(turn)
          IN /\ values.count[p[1]] > 0 => ~missed
             /\ missed => /\ values.count[p[1]] = 0
                          /\ values.filter[p] = [mm |-> 0, mn |-> 0, nn |-> 0]

\* Four Mystic Gate next to exactly need_untapped(2) lands that are not Filters
\* and produce white or blue mana.
C29_Witness ==
    /\ pc = "assigned"
    /\ constraints = {WU}
    /\ \E p \in FilterPairs :
          /\ model.lands[p[1]] = MysticGate
          /\ values.count[p[1]] = 4
          /\ CountOf(NonFilterProducers(p), values.count) = need_untapped(2)

(***************************************************************************)
(* Properties of what a Solution reports                                   *)
(***************************************************************************)

\* C27: for every constraint whose turn is its mana value, the Solution
\* reports need_untapped(turn) as required under (turn, UNTAPPED), however
\* many untapped lands the manabase has.
C27_RequiredUntapped ==
    IsSolution
    => \A c \in constraints :
          OnCurve(c)
          => /\ <<c.turn, UNTAPPED>> \in DOMAIN result.required
             /\ result.required[<<c.turn, UNTAPPED>>] = need_untapped(c.turn)

\* The resources Solution.__repr__ prints for a constraint: its colour
\* combinations and UNTAPPED.
ReprResources(c) == {Resource(cc) : cc \in color_combinations(c)} \cup {UNTAPPED}

\* C28: a returned Solution has an entry under (turn, resource) in required,
\* sources and providing for every constraint and every resource that is
\* printed for it, so the subscripts of Solution.__repr__ all succeed.
C28_SolutionComplete ==
    IsSolution
    => \A c \in constraints : \A resource \in ReprResources(c) :
          /\ <<c.turn, resource>> \in DOMAIN result.required
          /\ <<c.turn, resource>> \in DOMAIN result.sources
          /\ <<c.turn, resource>> \in DOMAIN result.providing

(***************************************************************************)
(* Properties of the requests of define_model                              *)
(***************************************************************************)

====
